------------------------------- MODULE CapProofs -------------------------------
(***************************************************************************)
(* Theorems of the two monthly caps: module SpendBudget, for any number of *)
(* requests, runs, lapsed leases and deaths, and module Agent, for any     *)
(* number of threads, sessions, restarts and lost answers.                 *)
(*                                                                         *)
(* Both caps bound a sum over a finite set.  A sum is a recursive function *)
(* on its subsets; what it returns is proved by induction over them, in    *)
(* the form of a least counterexample (WFMin) in a set of subsets.         *)
(***************************************************************************)
EXTENDS Agent, SpendBudget, FiniteSetTheorems, WellFoundedInduction, TLAPS

-----------------------------------------------------------------------------
(* Sums                                                                    *)

\* Induction over the subsets of a finite set, for a set of subsets.
LEMMA SubsetInduction ==
    ASSUME NEW S, IsFiniteSet(S), NEW P,
           \A T \in SUBSET S : (\A U \in SUBSET T : U # T => U \in P) => T \in P
    PROVE  \A T \in SUBSET S : T \in P
<1> DEFINE Bad == (SUBSET S) \ P
<1> SUFFICES ASSUME Bad # {} PROVE FALSE
    OBVIOUS
<1>1. IsWellFoundedOn(StrictSubsetOrdering(S), FiniteSubsetsOf(S))
    BY FS_StrictSubsetOrderingWellFounded
<1>2. FiniteSubsetsOf(S) = SUBSET S
    BY FS_FiniteSubsetsOfFinite
<1>3. PICK T \in Bad : \A U \in Bad : <<U, T>> \notin StrictSubsetOrdering(S)
    <2>1. Bad \subseteq FiniteSubsetsOf(S) /\ Bad # {}
        BY <1>2
    <2> HIDE DEF Bad
    <2> QED BY <1>1, <2>1, WFMin
<1>4. \A U \in SUBSET T : U # T => U \in P
    BY <1>3 DEF StrictSubsetOrdering
<1> QED BY <1>4

\* The value at s of the recursive function in a sum of f, from its values g at
\* smaller sets.
Added(g, f, s) ==
    IF s = {} THEN 0 ELSE LET x == CHOOSE x \in s : TRUE IN f[x] + g[s \ {x}]

Solves(g, f, S) == g = [s \in SUBSET S |-> Added(g, f, s)]

LEMMA SumIsSolution ==
    ASSUME NEW f, NEW S
    PROVE  SumFunctionOnSet(f, S) = (CHOOSE g : Solves(g, f, S))[S]
BY DEF SumFunctionOnSet, FoldFunctionOnSet, MapThenFoldSet, Solves, Added

LEMMA SolutionExists ==
    ASSUME NEW f, NEW S, IsFiniteSet(S)
    PROVE  \E g : Solves(g, f, S)
<1> DEFINE UpTo(g, n) == \A s \in SUBSET S : Cardinality(s) <= n => g[s] = Added(g, f, s)
           P == {T \in SUBSET S : \E g : UpTo(g, Cardinality(T))}
<1>0. \A T \in SUBSET S : IsFiniteSet(T) /\ Cardinality(T) \in Nat /\ Cardinality(T) <= Cardinality(S)
    BY FS_Subset, FS_CardinalityType
<1>1. ASSUME NEW T \in SUBSET S, \A U \in SUBSET T : U # T => U \in P PROVE T \in P
    <2>1. CASE T = {}
        <3> DEFINE g == [s \in SUBSET S |-> 0]
        <3>1. UpTo(g, 0)
            BY <1>0, FS_EmptySet DEF Added
        <3> QED BY <2>1, <3>1, FS_EmptySet
    <2>2. CASE T # {}
        <3>1. PICK x \in T : TRUE
            BY <2>2
        <3>2. Cardinality(T \ {x}) = Cardinality(T) - 1 /\ T \ {x} \in SUBSET S
            BY <1>0, FS_RemoveElement
        <3> DEFINE n == Cardinality(T) - 1
        <3>3. PICK g : UpTo(g, n)
            BY <1>1, <3>2
        <3> DEFINE h == [s \in SUBSET S |-> Added(g, f, s)]
        <3>4. ASSUME NEW s \in SUBSET S, Cardinality(s) <= n + 1 PROVE h[s] = Added(h, f, s)
            <4>1. CASE s = {}
                BY <4>1 DEF Added
            <4>2. CASE s # {}
                <5> DEFINE y == CHOOSE y \in s : TRUE
                <5>1. y \in s
                    BY <4>2
                <5> HIDE DEF y
                <5>2. Cardinality(s \ {y}) = Cardinality(s) - 1 /\ s \ {y} \in SUBSET S
                    BY <1>0, <5>1, FS_RemoveElement
                <5>3. Cardinality(s \ {y}) <= n
                    BY <1>0, <3>4, <5>2
                <5>4. g[s \ {y}] = h[s \ {y}]
                    BY <3>3, <5>2, <5>3
                <5> QED BY <4>2, <5>4 DEF Added, y
            <4> QED BY <4>1, <4>2
        <3>5. n + 1 = Cardinality(T)
            BY <1>0
        <3>6. UpTo(h, n + 1)
            BY <3>4
        <3> QED BY <3>5, <3>6
    <2> QED BY <2>1, <2>2
<1>3. S \in P
    <2> HIDE DEF P
    <2> QED BY <1>1, SubsetInduction
<1>4. PICK g : UpTo(g, Cardinality(S))
    BY <1>3
<1> DEFINE h == [s \in SUBSET S |-> g[s]]
<1>5. ASSUME NEW s \in SUBSET S PROVE h[s] = Added(h, f, s)
    <2>1. g[s] = Added(g, f, s)
        BY <1>0, <1>4
    <2> QED BY <2>1 DEF Added
<1>6. Solves(h, f, S)
    BY <1>5 DEF Solves
<1> QED BY <1>6

\* Two solutions agree on the sets of both.
LEMMA SolutionsAgree ==
    ASSUME NEW f, NEW S, NEW T, IsFiniteSet(S), T \in SUBSET S,
           NEW g, NEW h, Solves(g, f, S), Solves(h, f, T)
    PROVE  g[T] = h[T]
<1> DEFINE P == {U \in SUBSET T : g[U] = h[U]}
<1>0. IsFiniteSet(T)
    BY FS_Subset
<1>1. ASSUME NEW U \in SUBSET T, \A V \in SUBSET U : V # U => V \in P PROVE U \in P
    <2>1. g[U] = Added(g, f, U) /\ h[U] = Added(h, f, U)
        BY DEF Solves
    <2>2. Added(g, f, U) = Added(h, f, U)
        BY <1>1 DEF Added
    <2> QED BY <2>1, <2>2
<1>2. T \in P
    <2> HIDE DEF P
    <2> QED BY <1>0, <1>1, SubsetInduction
<1> QED BY <1>2

\* A sum takes one element out of its set, some element.
LEMMA SumPicksOne ==
    ASSUME NEW f, NEW S, IsFiniteSet(S), S # {}
    PROVE  \E x \in S : SumFunctionOnSet(f, S) = f[x] + SumFunctionOnSet(f, S \ {x})
<1> DEFINE x == CHOOSE x \in S : TRUE
           g == CHOOSE g : Solves(g, f, S)
           h == CHOOSE h : Solves(h, f, S \ {x})
<1>1. x \in S
    OBVIOUS
<1>2. IsFiniteSet(S \ {x})
    BY FS_RemoveElement
<1>3. Solves(g, f, S) /\ Solves(h, f, S \ {x})
    BY <1>2, SolutionExists
<1>4. g[S \ {x}] = h[S \ {x}]
    <2> HIDE DEF g, h, x
    <2> QED BY <1>3, SolutionsAgree
<1>5. g[S] = f[x] + g[S \ {x}]
    BY <1>3 DEF Solves, Added
<1>6. SumFunctionOnSet(f, S) = g[S] /\ SumFunctionOnSet(f, S \ {x}) = h[S \ {x}]
    BY SumIsSolution
<1> QED BY <1>1, <1>4, <1>5, <1>6

LEMMA SumOfNone == ASSUME NEW f PROVE SumFunctionOnSet(f, {}) = 0
<1>1. \E g : Solves(g, f, {})
    BY SolutionExists, FS_EmptySet
<1> QED BY <1>1, SumIsSolution DEF Solves, Added

LEMMA SumType ==
    ASSUME NEW D, NEW f \in [D -> Nat], NEW S \in SUBSET D, IsFiniteSet(S)
    PROVE  SumFunctionOnSet(f, S) \in Nat
<1> DEFINE P == {T \in SUBSET S : SumFunctionOnSet(f, T) \in Nat}
<1>1. ASSUME NEW T \in SUBSET S, \A U \in SUBSET T : U # T => U \in P PROVE T \in P
    <2>1. CASE T = {}
        BY <2>1, SumOfNone
    <2>2. CASE T # {}
        <3>1. PICK x \in T : SumFunctionOnSet(f, T) = f[x] + SumFunctionOnSet(f, T \ {x})
            BY <2>2, SumPicksOne, FS_Subset
        <3>2. SumFunctionOnSet(f, T \ {x}) \in Nat
            BY <1>1
        <3> QED BY <3>1, <3>2
    <2> QED BY <2>1, <2>2
<1>2. S \in P
    <2> HIDE DEF P
    <2> QED BY <1>1, SubsetInduction
<1> QED BY <1>2

\* Whichever element is taken out, the sum is that element and the rest.
LEMMA SumTakes ==
    ASSUME NEW D, NEW f \in [D -> Nat], NEW S \in SUBSET D, IsFiniteSet(S), NEW x \in S
    PROVE  SumFunctionOnSet(f, S) = f[x] + SumFunctionOnSet(f, S \ {x})
<1> DEFINE P == {T \in SUBSET S : \A y \in T :
                    SumFunctionOnSet(f, T) = f[y] + SumFunctionOnSet(f, T \ {y})}
<1>1. ASSUME NEW T \in SUBSET S, \A U \in SUBSET T : U # T => U \in P, NEW y \in T
      PROVE  SumFunctionOnSet(f, T) = f[y] + SumFunctionOnSet(f, T \ {y})
    <2>0. IsFiniteSet(T)
        BY FS_Subset
    <2>1. PICK z \in T : SumFunctionOnSet(f, T) = f[z] + SumFunctionOnSet(f, T \ {z})
        BY <2>0, SumPicksOne
    <2>2. CASE y # z
        <3>1. SumFunctionOnSet(f, T \ {z}) = f[y] + SumFunctionOnSet(f, (T \ {z}) \ {y})
            BY <1>1, <2>2
        <3>2. SumFunctionOnSet(f, T \ {y}) = f[z] + SumFunctionOnSet(f, (T \ {y}) \ {z})
            BY <1>1, <2>2
        <3>3. (T \ {z}) \ {y} = (T \ {y}) \ {z}
            OBVIOUS
        <3>4. IsFiniteSet((T \ {y}) \ {z})
            BY <2>0, FS_RemoveElement
        <3>5. SumFunctionOnSet(f, (T \ {y}) \ {z}) \in Nat
            BY <3>4, SumType
        <3> QED BY <2>1, <3>1, <3>2, <3>3, <3>5
    <2> QED BY <2>1, <2>2
<1>2. S \in P
    <2>1. \A T \in SUBSET S : (\A U \in SUBSET T : U # T => U \in P) => T \in P
        BY <1>1
    <2> HIDE DEF P
    <2> QED BY <2>1, SubsetInduction
<1> QED BY <1>2

\* A sum depends on the values at its set only, and grows with them.
LEMMA SumMonotone ==
    ASSUME NEW D, NEW f \in [D -> Nat], NEW E, NEW g \in [E -> Nat],
           NEW S \in SUBSET (D \cap E), IsFiniteSet(S), \A x \in S : f[x] <= g[x]
    PROVE  SumFunctionOnSet(f, S) <= SumFunctionOnSet(g, S)
<1> DEFINE P == {T \in SUBSET S : SumFunctionOnSet(f, T) <= SumFunctionOnSet(g, T)}
<1>1. ASSUME NEW T \in SUBSET S, \A U \in SUBSET T : U # T => U \in P PROVE T \in P
    <2>1. CASE T = {}
        BY <2>1, SumOfNone
    <2>2. CASE T # {}
        <3>1. PICK x \in T : TRUE
            BY <2>2
        <3>2. SumFunctionOnSet(f, T \ {x}) <= SumFunctionOnSet(g, T \ {x})
            BY <1>1
        <3>3. IsFiniteSet(T) /\ IsFiniteSet(T \ {x})
            BY FS_Subset, FS_RemoveElement
        <3>4. /\ SumFunctionOnSet(f, T) = f[x] + SumFunctionOnSet(f, T \ {x})
              /\ SumFunctionOnSet(g, T) = g[x] + SumFunctionOnSet(g, T \ {x})
            BY <3>3, SumTakes
        <3>5. SumFunctionOnSet(f, T \ {x}) \in Nat /\ SumFunctionOnSet(g, T \ {x}) \in Nat
            BY <3>3, SumType
        <3>6. f[x] \in Nat /\ g[x] \in Nat /\ f[x] <= g[x]
            OBVIOUS
        <3> QED BY <3>2, <3>4, <3>5, <3>6
    <2> QED BY <2>1, <2>2
<1>2. S \in P
    <2> HIDE DEF P
    <2> QED BY <1>1, SubsetInduction
<1> QED BY <1>2

LEMMA SumOfSubset ==
    ASSUME NEW D, NEW f \in [D -> Nat], NEW S \in SUBSET D, IsFiniteSet(S), NEW R \in SUBSET S
    PROVE  SumFunctionOnSet(f, R) <= SumFunctionOnSet(f, S)
<1> DEFINE P == {T \in SUBSET S : \A V \in SUBSET T :
                    SumFunctionOnSet(f, V) <= SumFunctionOnSet(f, T)}
<1>1. ASSUME NEW T \in SUBSET S, \A U \in SUBSET T : U # T => U \in P, NEW V \in SUBSET T
      PROVE  SumFunctionOnSet(f, V) <= SumFunctionOnSet(f, T)
    <2>0. IsFiniteSet(T) /\ SumFunctionOnSet(f, T) \in Nat
        BY FS_Subset, SumType
    <2>1. CASE V = T
        BY <2>0, <2>1
    <2>2. CASE V # T
        <3>1. PICK x \in T \ V : TRUE
            BY <2>2
        <3>2. SumFunctionOnSet(f, V) <= SumFunctionOnSet(f, T \ {x})
            BY <1>1
        <3>3. SumFunctionOnSet(f, T) = f[x] + SumFunctionOnSet(f, T \ {x})
            BY <2>0, SumTakes
        <3>4. SumFunctionOnSet(f, T \ {x}) \in Nat /\ SumFunctionOnSet(f, V) \in Nat
            BY <2>0, FS_Subset, FS_RemoveElement, SumType
        <3> QED BY <3>2, <3>3, <3>4
    <2> QED BY <2>1, <2>2
<1>2. S \in P
    <2>1. \A T \in SUBSET S : (\A U \in SUBSET T : U # T => U \in P) => T \in P
        BY <1>1
    <2> HIDE DEF P
    <2> QED BY <2>1, SubsetInduction
<1> QED BY <1>2

-----------------------------------------------------------------------------
(* The spend budget: types                                                 *)

LEMMA BudgetInitTyped == BudgetInit => BudgetTypeOK
<1> SUFFICES ASSUME BudgetInit PROVE BudgetTypeOK
    OBVIOUS
<1>1. NoJob \in Job
    BY DEF NoJob, Job, Op, RunState, Stage
<1>2. 0 \in 0 .. MaxExpiries /\ 0 \in 0 .. MaxCrashes
    BY LimitsAssumption
<1> QED BY <1>1, <1>2 DEF BudgetInit, BudgetTypeOK, RunState, PC

LEMMA BudgetStepTyped == BudgetTypeOK /\ [BudgetNext]_budgetVars => BudgetTypeOK'
<1> SUFFICES ASSUME BudgetTypeOK, [BudgetNext]_budgetVars PROVE BudgetTypeOK'
    OBVIOUS
<1> USE DEF BudgetTypeOK, PC
<1>1. NoJob \in Job /\ Active \subseteq RunState
    BY DEF NoJob, Job, Op, RunState, Stage
<1>2. \A c \in Callers : job[c] \in Job /\ pc[c] \in PC
    OBVIOUS
<1>3. \A c \in Callers : End(c) => pc' \in [Callers -> PC] /\ job' \in [Callers -> Job]
                                   /\ spend' \in [Callers -> Nat]
    BY <1>1 DEF End, Goto
<1>4. \A c \in Callers, l \in PC : Goto(c, l) => pc' \in [Callers -> PC]
    BY DEF Goto
<1>5. \A c \in Callers : Raise(c) => pc' \in [Callers -> PC]
    BY <1>4 DEF Raise
<1>6. ASSUME NEW c \in Callers PROVE
        /\ Begin(c) => BudgetTypeOK'
        /\ Acquire(c) => BudgetTypeOK'
        /\ Fence(c) => BudgetTypeOK'
        /\ Release(c) => BudgetTypeOK'
        /\ ReadSpend(c) => BudgetTypeOK'
        /\ EnforceCaps(c) => BudgetTypeOK'
        /\ Quote(c) => BudgetTypeOK'
        /\ OpenIntent(c) => BudgetTypeOK'
        /\ Crash(c) => BudgetTypeOK'
    <2>1. ASSUME Begin(c) PROVE BudgetTypeOK'
        <3>1. \A a \in Amounts : [NoJob EXCEPT !.op = "begin", !.amount = a] \in Job
            BY DEF NoJob, Job, Op, RunState, Stage
        <3> QED BY <2>1, <3>1, <1>4 DEF Begin
    <2>2. ASSUME Acquire(c) PROVE BudgetTypeOK'
        <3>1. /\ pc' \in [Callers -> PC]
              /\ job' \in [Callers -> Job]
              /\ spend' \in [Callers -> Nat]
            <4>1. CASE End(c)
                BY <4>1, <1>3
            <4>2. CASE (Goto(c, "spend") \/ Goto(c, "quote")) /\ UNCHANGED <<job, spend>>
                BY <4>2, <1>4
            <4> QED BY <2>2, <4>1, <4>2 DEF Acquire
        <3>2. lease' \in [owner : Callers \cup {Nobody, Dead}, live : BOOLEAN]
            <4>1. lease' = [owner |-> c, live |-> TRUE] \/ lease' = lease
                BY <2>2 DEF Acquire
            <4>2. [owner |-> c, live |-> TRUE]
                  \in [owner : Callers \cup {Nobody, Dead}, live : BOOLEAN]
                OBVIOUS
            <4>3. lease \in [owner : Callers \cup {Nobody, Dead}, live : BOOLEAN]
                OBVIOUS
            <4> QED BY <4>1, <4>2, <4>3
        <3> QED BY <2>2, <3>1, <3>2 DEF Acquire
    <2>3. ASSUME Fence(c) PROVE BudgetTypeOK'
        BY <2>3, <1>4, <1>5 DEF Fence
    <2>4. ASSUME Release(c) PROVE BudgetTypeOK'
        BY <2>4, <1>3 DEF Release
    <2>5. ASSUME ReadSpend(c) PROVE BudgetTypeOK'
        BY <2>5, <1>4 DEF ReadSpend
    <2>6. ASSUME EnforceCaps(c) PROVE BudgetTypeOK'
        <3>1. Passed(c) \in PC
            BY DEF Passed
        <3>2. pc' \in [Callers -> PC]
            BY <2>6, <3>1, <1>4, <1>5 DEF EnforceCaps
        <3> QED BY <2>6, <3>2 DEF EnforceCaps
    <2>7. ASSUME Quote(c) PROVE BudgetTypeOK'
        <3>1. \A a \in Amounts : [job EXCEPT ![c].amount = a] \in [Callers -> Job]
            BY <1>2 DEF Job
        <3> QED BY <2>7, <3>1, <1>4, <1>5 DEF Quote
    <2>8. ASSUME OpenIntent(c) PROVE BudgetTypeOK'
        <3>1. [job EXCEPT ![c].stage = "final"] \in [Callers -> Job]
            BY <1>2 DEF Job, Stage
        <3> QED BY <2>8, <3>1, <1>4, <1>5 DEF OpenIntent
    <2>9. ASSUME Crash(c) PROVE BudgetTypeOK'
        <3>1. crashes' \in 0 .. MaxCrashes
            BY <2>9, LimitsAssumption DEF Crash
        <3>2. lease' \in [owner : Callers \cup {Nobody, Dead}, live : BOOLEAN]
            BY <2>9 DEF Crash
        <3> QED BY <2>9, <3>1, <3>2, <1>3 DEF Crash
    <2> QED BY <2>1, <2>2, <2>3, <2>4, <2>5, <2>6, <2>7, <2>8, <2>9
<1>7. ASSUME NEW c \in Callers, NEW r \in Runs, Act(c, r) PROVE BudgetTypeOK'
    <2> DEFINE asked(op, a, stage) ==
            [op |-> op, run |-> r, amount |-> a,
             from |-> IF op = "adjust" THEN run[r].state ELSE "none", stage |-> stage]
    <2>1. run[r].state \in RunState /\ run[r].amount \in Amounts \cup {0}
        OBVIOUS
    <2>2. /\ \A a \in Amounts : asked("adjust", a, "final") \in Job
          /\ asked("reapprove", run[r].amount, "quote") \in Job
          /\ asked("approve", 0, "final") \in Job
        BY <2>1 DEF Job, Op, Stage, RunState
    <2>3. pc' \in [Callers -> PC]
        BY <1>7, <1>4 DEF Act
    <2>4. job' \in [Callers -> Job]
        BY <1>7, <2>2 DEF Act
    <2> QED BY <1>7, <2>3, <2>4 DEF Act
<1>8. ASSUME NEW c \in Callers PROVE
        /\ Create(c) => BudgetTypeOK'
        /\ Restate(c) => BudgetTypeOK'
        /\ Write(c) => BudgetTypeOK'
        /\ Notify(c) => BudgetTypeOK'
        /\ Fail(c) => BudgetTypeOK'
    <2>0. job[c].amount \in Amounts \cup {0}
        BY <1>2 DEF Job
    <2>1. ASSUME Create(c) PROVE BudgetTypeOK'
        <3>1. ASSUME NEW r \in Runs
              PROVE  [job EXCEPT ![c].run = r, ![c].stage = "quote"] \in [Callers -> Job]
            <4> DEFINE n == [job[c] EXCEPT !.run = r, !.stage = "quote"]
            <4>1. n \in Job
                BY <1>2 DEF Job, Stage
            <4>2. [job EXCEPT ![c].run = r, ![c].stage = "quote"] = [job EXCEPT ![c] = n]
                OBVIOUS
            <4> HIDE DEF n
            <4> QED BY <1>2, <4>1, <4>2
        <3>2. job' \in [Callers -> Job]
            <4>1. job' = job \/ \E r \in Runs : job' = [job EXCEPT ![c].run = r, ![c].stage = "quote"]
                BY <2>1 DEF Create
            <4> QED BY <1>2, <3>1, <4>1
        <3>3. run' \in [Runs -> [state : RunState, amount : Amounts \cup {0}]]
            <4>1. \A r \in Runs, st \in {"quote_pending", "triggered"} :
                     [run EXCEPT ![r] = [state |-> st, amount |-> job[c].amount]]
                     \in [Runs -> [state : RunState, amount : Amounts \cup {0}]]
                BY <2>0 DEF RunState, Active
            <4>2. \/ UNCHANGED run
                  \/ \E r \in Runs, st \in {"quote_pending", "triggered"} :
                       run' = [run EXCEPT ![r] = [state |-> st, amount |-> job[c].amount]]
                BY <2>1 DEF Create
            <4> QED BY <4>1, <4>2
        <3>4. Goto(c, "quote") \/ Goto(c, "intent") \/ Goto(c, "release")
            BY <2>1 DEF Create
        <3>5. pc' \in [Callers -> PC]
            BY <3>4, <1>4
        <3> QED BY <2>1, <3>2, <3>3, <3>5 DEF Create
    <2>2. ASSUME Restate(c) PROVE BudgetTypeOK'
        <3>1. run' \in [Runs -> [state : RunState, amount : Amounts \cup {0}]]
            BY <2>2, <2>0 DEF Restate, RunState, Active
        <3> QED BY <2>2, <3>1, <1>4 DEF Restate
    <2>3. ASSUME Write(c) PROVE BudgetTypeOK'
        <3>1. run' \in [Runs -> [state : RunState, amount : Amounts \cup {0}]]
            BY <2>3, <2>0 DEF Write, RunState, Active
        <3>2. pc' \in [Callers -> PC] /\ job' \in [Callers -> Job] /\ spend' \in [Callers -> Nat]
            BY <2>3, <1>3, <1>4 DEF Write
        <3>3. slipped' \in BOOLEAN /\ UNCHANGED <<spent, lease, expiries, crashes>>
            BY <2>3 DEF Write
        <3> QED BY <3>1, <3>2, <3>3
    <2>4. ASSUME Notify(c) PROVE BudgetTypeOK'
        <3>1. run' \in [Runs -> [state : RunState, amount : Amounts \cup {0}]]
            BY <2>4 DEF Notify, RunState, Active
        <3> QED BY <2>4, <3>1, <1>4 DEF Notify
    <2>5. ASSUME Fail(c) PROVE BudgetTypeOK'
        <3>1. run' \in [Runs -> [state : RunState, amount : Amounts \cup {0}]]
            BY <2>5 DEF Fail, RunState, Active
        <3> QED BY <2>5, <3>1, <1>4 DEF Fail
    <2> QED BY <2>1, <2>2, <2>3, <2>4, <2>5
<1>9. ASSUME NEW r \in Runs PROVE
        /\ Complete(r) => BudgetTypeOK'
        /\ Revalidate(r) => BudgetTypeOK'
        /\ Close(r) => BudgetTypeOK'
    <2>1. ASSUME Complete(r) PROVE BudgetTypeOK'
        <3>1. run' \in [Runs -> [state : RunState, amount : Amounts \cup {0}]]
            BY <2>1 DEF Complete, RunState
        <3>2. spent' \in Nat
            BY <2>1, AmountsAssumption DEF Complete
        <3>3. slipped' \in BOOLEAN
            BY <2>1 DEF Complete
        <3> QED BY <2>1, <3>1, <3>2, <3>3 DEF Complete
    <2>2. ASSUME Revalidate(r) PROVE BudgetTypeOK'
        <3>1. run' \in [Runs -> [state : RunState, amount : Amounts \cup {0}]]
            BY <2>2 DEF Revalidate, RunState, Active
        <3> QED BY <2>2, <3>1 DEF Revalidate
    <2>3. ASSUME Close(r) PROVE BudgetTypeOK'
        <3>1. run' \in [Runs -> [state : RunState, amount : Amounts \cup {0}]]
            BY <2>3 DEF Close, RunState
        <3> QED BY <2>3, <3>1 DEF Close
    <2> QED BY <2>1, <2>2, <2>3
<1>10. ASSUME Expire PROVE BudgetTypeOK'
    <2>1. expiries' \in 0 .. MaxExpiries
        BY <1>10, LimitsAssumption DEF Expire
    <2>2. lease' \in [owner : Callers \cup {Nobody, Dead}, live : BOOLEAN]
        BY <1>10 DEF Expire
    <2>3. slipped' \in BOOLEAN
        BY <1>10 DEF Expire
    <2> QED BY <1>10, <2>1, <2>2, <2>3 DEF Expire
<1>11. CASE UNCHANGED budgetVars
    BY <1>11 DEF budgetVars
<1> QED BY <1>6, <1>7, <1>8, <1>9, <1>10, <1>11 DEF BudgetNext, Serve

\* Whatever the requests do, the rows and what the requests hold have their types.
THEOREM BudgetTyping == BudgetSpec => []BudgetTypeOK
<1> QED BY BudgetInitTyped, BudgetStepTyped, PTL DEF BudgetSpec

-----------------------------------------------------------------------------
(* The spend budget: where the requests are                                *)

\* A step of one request is nothing to the others.
LEMMA OthersStand ==
    ASSUME BudgetTypeOK, NEW c \in Callers,
           Begin(c) \/ (\E r \in Runs : Act(c, r)) \/ Serve(c) \/ Crash(c),
           NEW d \in Callers, d # c
    PROVE  pc'[d] = pc[d] /\ job'[d] = job[d] /\ spend'[d] = spend[d]
<1> USE DEF BudgetTypeOK
<1>1. \A l : Goto(c, l) => pc'[d] = pc[d]
    BY DEF Goto
<1>2. End(c) => pc'[d] = pc[d] /\ job'[d] = job[d] /\ spend'[d] = spend[d]
    BY <1>1 DEF End
<1>3. Raise(c) => pc'[d] = pc[d]
    BY <1>1 DEF Raise
<1>4. Begin(c) => pc'[d] = pc[d] /\ job'[d] = job[d] /\ spend'[d] = spend[d]
    BY <1>1 DEF Begin
<1>5. ASSUME NEW r \in Runs, Act(c, r)
      PROVE  pc'[d] = pc[d] /\ job'[d] = job[d] /\ spend'[d] = spend[d]
    BY <1>1, <1>5 DEF Act
<1>6. Acquire(c) => pc'[d] = pc[d] /\ job'[d] = job[d] /\ spend'[d] = spend[d]
    BY <1>1, <1>2 DEF Acquire
<1>7. Fence(c) => pc'[d] = pc[d] /\ job'[d] = job[d] /\ spend'[d] = spend[d]
    BY <1>1, <1>3 DEF Fence
<1>8. ReadSpend(c) \/ EnforceCaps(c) => pc'[d] = pc[d] /\ job'[d] = job[d] /\ spend'[d] = spend[d]
    BY <1>1, <1>3 DEF ReadSpend, EnforceCaps
<1>9. Create(c) \/ Quote(c) => pc'[d] = pc[d] /\ job'[d] = job[d] /\ spend'[d] = spend[d]
    BY <1>1, <1>3 DEF Create, Quote
<1>10. OpenIntent(c) => pc'[d] = pc[d] /\ job'[d] = job[d] /\ spend'[d] = spend[d]
    BY <1>1, <1>3 DEF OpenIntent
<1>11. Restate(c) \/ Notify(c) \/ Fail(c) =>
        pc'[d] = pc[d] /\ job'[d] = job[d] /\ spend'[d] = spend[d]
    BY <1>1 DEF Restate, Notify, Fail
<1>12. Write(c) => pc'[d] = pc[d] /\ job'[d] = job[d] /\ spend'[d] = spend[d]
    BY <1>1, <1>2 DEF Write
<1>13. Release(c) \/ Crash(c) => pc'[d] = pc[d] /\ job'[d] = job[d] /\ spend'[d] = spend[d]
    BY <1>2 DEF Release, Crash
<1> QED BY <1>4, <1>5, <1>6, <1>7, <1>8, <1>9, <1>10, <1>11, <1>12, <1>13 DEF Serve

LEMMA PlacedAt ==
    ASSUME BudgetTypeOK, NEW c \in Callers, Place(c),
           Begin(c) \/ (\E r \in Runs : Act(c, r)) \/ Serve(c) \/ Crash(c)
    PROVE  Place(c)'
<1> USE DEF BudgetTypeOK
<1>1. \A l : Goto(c, l) => pc'[c] = l
    BY DEF Goto
<1>2. End(c) => pc'[c] = "idle" /\ job'[c] = NoJob
    BY DEF End, Goto
<1>3. Raise(c) => pc'[c] = IF Begins(c) THEN "fail" ELSE "release"
    BY <1>1 DEF Raise, Begins
<1>4. job[c] \in Job
    OBVIOUS
<1>5. pc'[c] = "idle" /\ job'[c] = NoJob => Place(c)'
    BY DEF Place, Begins, NoJob
<1>6. ASSUME Begin(c) PROVE Place(c)'
    <2>1. PICK a \in Amounts : job'[c] = [NoJob EXCEPT !.op = "begin", !.amount = a]
        BY <1>6 DEF Begin
    <2>2. job'[c].op = "begin" /\ job'[c].run = NoRun /\ job'[c].stage = "first"
        BY <2>1 DEF NoJob
    <2>3. pc'[c] = "acquire"
        BY <1>1, <1>6 DEF Begin
    <2> QED BY <2>2, <2>3 DEF Place, Begins
<1>7. ASSUME NEW r \in Runs, Act(c, r) PROVE Place(c)'
    <2>1. \/ job'[c].op = "adjust" /\ job'[c].stage = "final" /\ pc'[c] = "acquire"
          \/ job'[c].op = "reapprove" /\ job'[c].stage = "quote" /\ pc'[c] = "acquire"
          \/ job'[c].op = "approve" /\ pc'[c] = "write"
        BY <1>1, <1>7 DEF Act
    <2>2. job'[c].run = r
        BY <1>7 DEF Act
    <2> QED BY <2>1, <2>2, RunsAssumption DEF Place, Begins
<1>8. ASSUME Acquire(c) PROVE Place(c)'
    <2>1. CASE End(c)
        BY <1>2, <1>5, <2>1
    <2>2. CASE ~End(c)
        <3>1. /\ job'[c] = job[c]
              /\ pc'[c] = "spend" \/ (pc'[c] = "quote" /\ job[c].op = "reapprove")
            BY <1>1, <1>8, <2>2 DEF Acquire
        <3> QED BY <1>8, <3>1 DEF Place, Begins, Acquire
    <2> QED BY <2>1, <2>2
<1>9. ASSUME Fence(c) PROVE Place(c)'
    <2>1. /\ job'[c] = job[c]
          /\ \/ pc'[c] = IF job[c].op = "adjust" THEN "write" ELSE "spend"
             \/ pc'[c] = IF Begins(c) THEN "fail" ELSE "release"
        BY <1>1, <1>3, <1>9 DEF Fence
    <2> QED BY <1>9, <2>1 DEF Place, Begins, Fence
<1>10. ASSUME Release(c) \/ Crash(c) PROVE Place(c)'
    BY <1>2, <1>5, <1>10 DEF Release, Crash
<1>11. ASSUME ReadSpend(c) PROVE Place(c)'
    <2>1. job'[c] = job[c] /\ pc'[c] = "commitments"
        BY <1>1, <1>11 DEF ReadSpend
    <2> QED BY <1>11, <2>1 DEF Place, Begins, ReadSpend
<1>12. ASSUME EnforceCaps(c) PROVE Place(c)'
    <2>1. /\ job'[c] = job[c]
          /\ \/ pc'[c] = Passed(c)
             \/ pc'[c] = IF Begins(c) THEN "fail" ELSE "release"
        BY <1>1, <1>3, <1>12 DEF EnforceCaps
    <2> QED BY <1>4, <1>12, <2>1 DEF Place, Begins, Passed, EnforceCaps, Job, Op
<1>13. ASSUME Create(c) PROVE Place(c)'
    <2>1. CASE pc'[c] = "release" /\ job'[c] = job[c]
        BY <1>13, <2>1 DEF Place, Begins, Create
    <2>2. ASSUME NEW r \in Runs, job' = [job EXCEPT ![c].run = r, ![c].stage = "quote"],
                 pc'[c] \in {"quote", "intent"}
          PROVE  Place(c)'
        <3>1. job'[c].op = job[c].op /\ job'[c].run = r /\ job'[c].stage = "quote"
            BY <1>4, <2>2 DEF Job
        <3> QED BY <1>13, <2>2, <3>1, RunsAssumption DEF Place, Begins, Create
    <2> QED BY <1>1, <1>13, <2>1, <2>2 DEF Create
<1>14. ASSUME Quote(c) PROVE Place(c)'
    <2>1. /\ job'[c].op = job[c].op /\ job'[c].run = job[c].run /\ job'[c].stage = job[c].stage
          /\ \/ pc'[c] = "fence"
             \/ pc'[c] = IF Begins(c) THEN "fail" ELSE "release"
        BY <1>1, <1>3, <1>4, <1>14 DEF Quote, Job
    <2> QED BY <1>14, <2>1 DEF Place, Begins, Quote
<1>15. ASSUME Restate(c) PROVE Place(c)'
    <2>1. job'[c] = job[c] /\ pc'[c] = "intent"
        BY <1>1, <1>15 DEF Restate
    <2> QED BY <1>15, <2>1 DEF Place, Begins, Restate
<1>16. ASSUME OpenIntent(c) PROVE Place(c)'
    <2>1. CASE pc'[c] = "fence" /\ job' = [job EXCEPT ![c].stage = "final"]
        <3>1. job'[c].op = job[c].op /\ job'[c].run = job[c].run /\ job'[c].stage = "final"
            BY <1>4, <2>1 DEF Job
        <3> QED BY <1>16, <2>1, <3>1 DEF Place, Begins, OpenIntent
    <2>2. CASE pc'[c] = (IF Begins(c) THEN "fail" ELSE "release") /\ job' = job
        BY <1>16, <2>2 DEF Place, Begins, OpenIntent
    <2> QED BY <1>1, <1>3, <1>16, <2>1, <2>2 DEF OpenIntent
<1>17. ASSUME Write(c) PROVE Place(c)'
    <2>1. CASE job[c].op = "approve"
        BY <1>2, <1>5, <1>17, <2>1 DEF Write
    <2>2. CASE job[c].op # "approve"
        <3>1. /\ job'[c] = job[c]
              /\ pc'[c] = IF job[c].op = "begin" THEN "notify" ELSE "release"
            BY <1>1, <1>17, <2>2 DEF Write
        <3> QED BY <1>17, <2>2, <3>1 DEF Place, Begins, Write
    <2> QED BY <2>1, <2>2
<1>18. ASSUME Notify(c) \/ Fail(c) PROVE Place(c)'
    <2>1. job'[c] = job[c] /\ pc'[c] = "release"
        BY <1>1, <1>18 DEF Notify, Fail
    <2> QED BY <1>18, <2>1 DEF Place, Begins, Notify, Fail
<1> QED BY <1>6, <1>7, <1>8, <1>9, <1>10, <1>11, <1>12, <1>13, <1>14, <1>15, <1>16, <1>17,
           <1>18 DEF Serve

LEMMA PlaceStep ==
    ASSUME BudgetTypeOK, PlaceInv, [BudgetNext]_budgetVars
    PROVE  PlaceInv'
<1>1. SUFFICES ASSUME NEW d \in Callers PROVE Place(d)'
    BY DEF PlaceInv
<1>2. Place(d)
    BY DEF PlaceInv
<1>3. ASSUME NEW c \in Callers,
             Begin(c) \/ (\E r \in Runs : Act(c, r)) \/ Serve(c) \/ Crash(c)
      PROVE  Place(d)'
    <2>1. CASE d = c
        BY <1>2, <1>3, <2>1, PlacedAt
    <2>2. CASE d # c
        BY <1>2, <1>3, <2>2, OthersStand DEF Place, Begins
    <2> QED BY <2>1, <2>2
<1>4. ASSUME UNCHANGED <<pc, job>> PROVE Place(d)'
    BY <1>2, <1>4 DEF Place, Begins
<1> QED BY <1>3, <1>4 DEF BudgetNext, budgetVars, Complete, Revalidate, Close, Expire

\* The run of a request that begins is its own until the request lets go of it.
LEMMA OwnRunOfOthers ==
    ASSUME BudgetTypeOK, PlaceInv, OwnRunInv, NEW c \in Callers,
           Begin(c) \/ (\E r \in Runs : Act(c, r)) \/ Serve(c) \/ Crash(c),
           NEW d \in Callers, d # c, Begins(d)
    PROVE  /\ run'[job[d].run].state # "none"
           /\ pc[d] # "release" => run'[job[d].run] = run[job[d].run]
<1> USE DEF BudgetTypeOK
<1>1. PICK r \in Runs : r = job[d].run
    BY DEF Begins, Job
<1>2. OwnRun(d) /\ Place(d) /\ OwnRun(c) /\ Place(c)
    BY DEF OwnRunInv, PlaceInv
<1>3. Begins(c) => job[c].run # r
    BY <1>1 DEF OwnRunInv
<1>4. run[r].state # "none"
    BY <1>1, <1>2 DEF OwnRun
<1>5. CASE UNCHANGED run
    BY <1>1, <1>4, <1>5
<1>6. CASE Create(c)
    BY <1>1, <1>4, <1>6 DEF Create
<1>7. CASE Restate(c) \/ Notify(c) \/ Fail(c)
    <2>1. Begins(c)
        <3>1. job[c].op \in Op
            BY DEF Job
        <3> QED BY <1>2, <1>7, <3>1 DEF Place, Restate, Notify, Fail, Begins, Op
    <2>2. run'[r] = run[r]
        BY <1>3, <1>7, <2>1 DEF Restate, Notify, Fail
    <2> QED BY <1>1, <1>4, <2>2
<1>8. CASE Write(c)
    <2>1. CASE job[c].run # r
        BY <1>1, <1>4, <1>8, <2>1 DEF Write
    <2>2. CASE job[c].run = r
        <3>1. job[c].op \in {"adjust", "reapprove", "approve"}
            BY <1>2, <1>3, <1>8, <2>2, RunsAssumption DEF Place, Begins, Write, Job, Op
        <3>2. run'[r].state # "none"
            BY <1>4, <1>8, <2>2 DEF Write
        <3>3. run'[r] # run[r] => run[r].state \in {"notified", "reapproval_required"}
            BY <1>8, <2>2, <3>1 DEF Write
        <3>4. pc[d] # "release" => run[r].state \notin {"notified", "reapproval_required"}
            BY <1>1, <1>2 DEF OwnRun, Place
        <3> QED BY <1>1, <3>2, <3>3, <3>4
    <2> QED BY <2>1, <2>2
<1> QED BY <1>5, <1>6, <1>7, <1>8 DEF Begin, Act, Serve, Crash, Acquire, Fence, Release,
           ReadSpend, EnforceCaps, Quote, OpenIntent

LEMMA OwnRunBesides ==
    ASSUME BudgetTypeOK, PlaceInv, OwnRunInv, NEW r \in Runs,
           Complete(r) \/ Revalidate(r) \/ Close(r), NEW d \in Callers, Begins(d)
    PROVE  /\ run'[job[d].run].state # "none"
           /\ pc[d] # "release" => run'[job[d].run] = run[job[d].run]
<1> USE DEF BudgetTypeOK
<1>1. PICK q \in Runs : q = job[d].run
    BY DEF Begins, Job
<1>2. OwnRun(d) /\ Place(d)
    BY DEF OwnRunInv, PlaceInv
<1>3. run[q].state # "none"
    BY <1>1, <1>2 DEF OwnRun
<1>4. CASE q # r
    BY <1>1, <1>3, <1>4 DEF Complete, Revalidate, Close
<1>5. CASE q = r
    <2>1. run[r].state \in {"notified", "reapproval_required", "approved"}
        BY DEF Complete, Revalidate, Close
    <2>2. pc[d] = "release"
        BY <1>1, <1>2, <1>5, <2>1 DEF OwnRun, Place
    <2>3. run'[r].state # "none"
        BY DEF Complete, Revalidate, Close
    <2> QED BY <1>1, <1>5, <2>2, <2>3
<1> QED BY <1>4, <1>5

LEMMA OwnRunAt ==
    ASSUME BudgetTypeOK, NEW c \in Callers, Place(c), OwnRun(c),
           Begin(c) \/ (\E r \in Runs : Act(c, r)) \/ Serve(c) \/ Crash(c)
    PROVE  /\ OwnRun(c)'
           /\ Begins(c)' => \/ Begins(c) /\ job'[c].run = job[c].run
                            \/ Create(c) /\ run[job'[c].run].state = "none"
<1> USE DEF BudgetTypeOK
<1>1. \A l : Goto(c, l) => pc'[c] = l
    BY DEF Goto
<1>2. End(c) => job'[c] = NoJob
    BY DEF End
<1>3. Raise(c) => pc'[c] = IF Begins(c) THEN "fail" ELSE "release"
    BY <1>1 DEF Raise, Begins
<1>4. job[c] \in Job
    OBVIOUS
<1>5. ~Begins(c)' => OwnRun(c)'
    BY DEF OwnRun
<1>6. job'[c] = NoJob => ~Begins(c)'
    BY DEF Begins, NoJob
<1>7. Begin(c) => ~Begins(c)'
    BY DEF Begin, Begins, NoJob
<1>8. ASSUME NEW r \in Runs, Act(c, r) PROVE ~Begins(c)'
    BY <1>8 DEF Act, Begins
<1>9. ASSUME Acquire(c), ~End(c), Begins(c) PROVE FALSE
    BY <1>9 DEF Acquire, Place, Begins
<1>10. Acquire(c) => End(c) \/ job'[c] = job[c]
    BY DEF Acquire
<1>11. Release(c) \/ Crash(c) => End(c)
    BY DEF Release, Crash
<1> DEFINE Kept == job'[c].op = job[c].op /\ job'[c].run = job[c].run
<1>12. ASSUME Fence(c) \/ ReadSpend(c) \/ EnforceCaps(c) PROVE OwnRun(c)' /\ Kept
    <2>1. job'[c] = job[c] /\ run' = run
        BY <1>12 DEF Fence, ReadSpend, EnforceCaps
    <2>2. ASSUME Begins(c)
          PROVE  \/ pc'[c] = "fail" /\ pc[c] \in {"fence", "commitments"}
                 \/ pc[c] = "fence" /\ pc'[c] = "spend"
                 \/ pc[c] = "spend" /\ pc'[c] = "commitments"
                 \/ pc[c] = "commitments" /\ pc'[c] = Passed(c)
        BY <1>1, <1>3, <1>12, <2>2 DEF Fence, ReadSpend, EnforceCaps, Begins
    <2> QED BY <1>5, <2>1, <2>2 DEF OwnRun, Begins, Place, Passed
<1>13. ASSUME Create(c)
       PROVE  OwnRun(c)' /\ (Begins(c)' => (Begins(c) /\ Kept) \/ run[job'[c].run].state = "none")
    <2>1. CASE pc'[c] = "release" /\ job'[c] = job[c] /\ run' = run
        BY <1>13, <2>1 DEF OwnRun, Begins, Create
    <2>2. ASSUME NEW r \in Runs, NEW ahead \in {"quote", "intent"}, run[r].state = "none",
                 run' = [run EXCEPT ![r] =
                   [state |-> IF ahead = "quote" THEN "quote_pending" ELSE "triggered",
                    amount |-> job[c].amount]],
                 job' = [job EXCEPT ![c].run = r, ![c].stage = "quote"], pc'[c] = ahead
          PROVE  OwnRun(c)' /\ run[job'[c].run].state = "none"
        <3>1. job'[c].run = r /\ job'[c].stage = "quote" /\ job'[c].amount = job[c].amount
            BY <1>4, <2>2 DEF Job
        <3>2. /\ run'[r].state = IF ahead = "quote" THEN "quote_pending" ELSE "triggered"
              /\ run'[r].amount = job[c].amount
            BY <2>2
        <3> QED BY <2>2, <3>1, <3>2 DEF OwnRun
    <2> QED BY <1>1, <1>13, <2>1, <2>2 DEF Create
<1>14. ASSUME Quote(c) PROVE OwnRun(c)' /\ Kept
    <2>1. Kept /\ job'[c].stage = job[c].stage /\ run' = run
        BY <1>4, <1>14 DEF Quote, Job
    <2>2. pc'[c] = "fence" \/ pc'[c] = IF Begins(c) THEN "fail" ELSE "release"
        BY <1>1, <1>3, <1>14 DEF Quote
    <2> QED BY <1>5, <1>14, <2>1, <2>2 DEF OwnRun, Begins, Place, Quote
<1>15. ASSUME Restate(c) PROVE OwnRun(c)' /\ Kept
    <2>1. job'[c] = job[c] /\ pc'[c] = "intent" /\ job[c].run \in Runs
        BY <1>1, <1>4, <1>15 DEF Restate, Place, Begins, Job
    <2>2. run'[job[c].run] = [state |-> "triggered", amount |-> job[c].amount]
        BY <1>15, <2>1 DEF Restate
    <2> QED BY <2>1, <2>2 DEF OwnRun
<1>16. ASSUME OpenIntent(c) PROVE OwnRun(c)' /\ Kept
    <2>1. CASE pc'[c] = "fence" /\ job' = [job EXCEPT ![c].stage = "final"]
        <3>1. Kept /\ job'[c].stage = "final" /\ job'[c].amount = job[c].amount
            BY <1>4, <2>1 DEF Job
        <3> QED BY <1>16, <2>1, <3>1 DEF OwnRun, Begins, OpenIntent
    <2>2. CASE pc'[c] = (IF Begins(c) THEN "fail" ELSE "release") /\ job' = job
        BY <1>16, <2>2 DEF OwnRun, Begins, OpenIntent
    <2> QED BY <1>1, <1>3, <1>16, <2>1, <2>2 DEF OpenIntent
<1>17. ASSUME Write(c) PROVE OwnRun(c)' /\ (Begins(c)' => Kept)
    <2>1. CASE job[c].op = "approve"
        BY <1>2, <1>5, <1>6, <1>17, <2>1 DEF Write
    <2>2. CASE job[c].op # "approve"
        <3>1. /\ job'[c] = job[c]
              /\ pc'[c] = IF job[c].op = "begin" THEN "notify" ELSE "release"
            BY <1>1, <1>17, <2>2 DEF Write
        <3>2. ASSUME Begins(c) PROVE run'[job[c].run].state = "intent_created"
            <4>1. run[job[c].run].state = "triggered" /\ job[c].run \in Runs
                BY <1>4, <1>17, <3>2 DEF OwnRun, Begins, Job, Write
            <4> QED BY <1>17, <3>2, <4>1 DEF Write, Begins
        <3> QED BY <1>5, <3>1, <3>2 DEF OwnRun, Begins
    <2> QED BY <2>1, <2>2
<1>18. ASSUME Notify(c) \/ Fail(c) PROVE OwnRun(c)' /\ Kept
    <2>1. job'[c] = job[c] /\ pc'[c] = "release" /\ job[c].run \in Runs
        BY <1>1, <1>4, <1>18 DEF Notify, Fail, Place, Begins, Job
    <2>2. run'[job[c].run].state # "none"
        BY <1>18, <2>1 DEF Notify, Fail
    <2> QED BY <2>1, <2>2 DEF OwnRun
<1>19. Begins(c)' /\ Kept => Begins(c) /\ job'[c].run = job[c].run
    BY DEF Begins
<1> HIDE DEF Kept
<1>20. Acquire(c) => OwnRun(c)' /\ ~Begins(c)'
    <2>1. CASE End(c)
        BY <2>1, <1>2, <1>5, <1>6
    <2>2. ASSUME Acquire(c), ~End(c) PROVE ~Begins(c)'
        BY <1>9, <1>10, <2>2 DEF Begins
    <2> QED BY <1>5, <2>1, <2>2
<1>21. Release(c) \/ Crash(c) => OwnRun(c)' /\ ~Begins(c)'
    BY <1>2, <1>5, <1>6, <1>11
<1> QED BY <1>5, <1>7, <1>8, <1>12, <1>13, <1>14, <1>15, <1>16, <1>17, <1>18, <1>19, <1>20,
           <1>21 DEF Serve

LEMMA OwnRunStep ==
    ASSUME BudgetTypeOK, PlaceInv, OwnRunInv, [BudgetNext]_budgetVars
    PROVE  OwnRunInv'
<1> USE DEF BudgetTypeOK
<1>1. ASSUME NEW c \in Callers,
             Begin(c) \/ (\E r \in Runs : Act(c, r)) \/ Serve(c) \/ Crash(c)
      PROVE  OwnRunInv'
    <2>1. OwnRun(c) /\ Place(c)
        BY DEF OwnRunInv, PlaceInv
    <2>2. OwnRun(c)' /\ (Begins(c)' => \/ Begins(c) /\ job'[c].run = job[c].run
                                       \/ run[job'[c].run].state = "none")
        BY <1>1, <2>1, OwnRunAt
    <2>3. ASSUME NEW d \in Callers, d # c
          PROVE  /\ OwnRun(d)' /\ (Begins(d)' <=> Begins(d)) /\ job'[d].run = job[d].run
                 /\ Begins(d) => run[job[d].run].state # "none"
        <3>1. pc'[d] = pc[d] /\ job'[d] = job[d]
            BY <1>1, <2>3, OthersStand
        <3>2. OwnRun(d)
            BY DEF OwnRunInv
        <3>3. Begins(d) => /\ run'[job[d].run].state # "none"
                           /\ pc[d] # "release" => run'[job[d].run] = run[job[d].run]
            BY <1>1, <2>3, OwnRunOfOthers
        <3> QED BY <3>1, <3>2, <3>3 DEF OwnRun, Begins
    <2>4. ASSUME NEW a \in Callers, NEW b \in Callers, Begins(a)', Begins(b)',
                 job'[a].run = job'[b].run
          PROVE  a = b
        BY <2>2, <2>3, <2>4 DEF OwnRunInv
    <2> QED BY <2>2, <2>3, <2>4 DEF OwnRunInv
<1>2. ASSUME NEW r \in Runs, Complete(r) \/ Revalidate(r) \/ Close(r) PROVE OwnRunInv'
    <2>1. UNCHANGED <<pc, job>>
        BY <1>2 DEF Complete, Revalidate, Close
    <2>2. ASSUME NEW d \in Callers PROVE OwnRun(d)'
        <3>1. OwnRun(d)
            BY DEF OwnRunInv
        <3>2. Begins(d) => /\ run'[job[d].run].state # "none"
                           /\ pc[d] # "release" => run'[job[d].run] = run[job[d].run]
            BY <1>2, OwnRunBesides
        <3> QED BY <2>1, <3>1, <3>2 DEF OwnRun, Begins
    <2> QED BY <2>1, <2>2 DEF OwnRunInv, Begins
<1>3. ASSUME UNCHANGED <<run, pc, job>> PROVE OwnRunInv'
    BY <1>3 DEF OwnRunInv, OwnRun, Begins
<1> QED BY <1>1, <1>2, <1>3 DEF BudgetNext, budgetVars, Expire

-----------------------------------------------------------------------------
(* The spend budget: what a check read, and who holds the lease            *)

LEMMA PaidStaysPaid ==
    ASSUME BudgetTypeOK, PlaceInv, OwnRunInv, [BudgetNext]_budgetVars,
           NEW r \in Runs, run[r].state = "completed"
    PROVE  run'[r].state = "completed"
<1> USE DEF BudgetTypeOK
<1>1. CASE UNCHANGED run
    BY <1>1
<1>2. ASSUME NEW c \in Callers, Create(c) PROVE run'[r].state = "completed"
    BY <1>2 DEF Create
<1>3. ASSUME NEW c \in Callers, Write(c) PROVE run'[r].state = "completed"
    BY <1>3 DEF Write
<1>4. ASSUME NEW c \in Callers, Restate(c) \/ Notify(c) \/ Fail(c)
      PROVE  run'[r].state = "completed"
    <2>1. Place(c) /\ OwnRun(c) /\ job[c].op \in Op
        BY DEF PlaceInv, OwnRunInv, Job
    <2>2. Begins(c)
        BY <1>4, <2>1 DEF Place, Restate, Notify, Fail, Begins, Op
    <2>3. job[c].run # r
        BY <1>4, <2>1, <2>2 DEF OwnRun, Restate, Notify, Fail
    <2> QED BY <1>4, <2>3 DEF Restate, Notify, Fail
<1>5. ASSUME NEW q \in Runs, Complete(q) \/ Revalidate(q) \/ Close(q)
      PROVE  run'[r].state = "completed"
    BY <1>5 DEF Complete, Revalidate, Close
<1> QED BY <1>1, <1>2, <1>3, <1>4, <1>5 DEF BudgetNext, budgetVars, Serve, Begin, Act, Crash,
           Acquire, Fence, Release, ReadSpend, EnforceCaps, Quote, OpenIntent, Expire

LEMMA SlippedStays ==
    ASSUME BudgetTypeOK, [BudgetNext]_budgetVars, ~slipped'
    PROVE  ~slipped
<1> USE DEF BudgetTypeOK
<1>1. ASSUME NEW c \in Callers,
             Begin(c) \/ (\E r \in Runs : Act(c, r)) \/ Serve(c) \/ Crash(c)
      PROVE  ~slipped
    BY <1>1 DEF Serve, Begin, Act, Crash, Acquire, Fence, Release, ReadSpend, EnforceCaps, Create,
       Quote, Restate, OpenIntent, Write, Notify, Fail
<1>2. ASSUME NEW r \in Runs, Complete(r) \/ Revalidate(r) \/ Close(r) PROVE ~slipped
    BY <1>2 DEF Complete, Revalidate, Close
<1> QED BY <1>1, <1>2 DEF BudgetNext, budgetVars, Expire

LEMMA ReadStep ==
    ASSUME BudgetTypeOK, PlaceInv, OwnRunInv, ReadInv, [BudgetNext]_budgetVars
    PROVE  ReadInv'
<1> SUFFICES ASSUME ~slipped', NEW c \in Callers, pc'[c] = "commitments",
                    job'[c].stage = "final"
             PROVE  spend'[c] = spent' \/ run'[job'[c].run].state = "completed"
    BY DEF ReadInv
<1> USE DEF BudgetTypeOK
<1>1. ~slipped
    BY SlippedStays
<1>2. ASSUME pc[c] = "commitments", job[c].stage = "final"
      PROVE  /\ job[c].run \in Runs
             /\ spend[c] = spent \/ run'[job[c].run].state = "completed"
    <2>1. job[c] \in Job /\ Place(c)
        BY DEF PlaceInv
    <2>2. job[c].run \in Runs
        BY <1>2, <2>1, RunsAssumption DEF Place, Job, Op
    <2> QED BY <1>1, <1>2, <2>2, PaidStaysPaid DEF ReadInv
<1>3. ASSUME NEW d \in Callers,
             Begin(d) \/ (\E r \in Runs : Act(d, r)) \/ Serve(d) \/ Crash(d)
      PROVE  spend'[c] = spent' \/ run'[job'[c].run].state = "completed"
    <2>1. spent' = spent
        BY <1>3 DEF Serve, Begin, Act, Crash, Acquire, Fence, Release, ReadSpend, EnforceCaps,
           Create, Quote, Restate, OpenIntent, Write, Notify, Fail
    <2>2. CASE d # c
        BY <1>2, <1>3, <2>1, <2>2, OthersStand
    <2>3. CASE d = c
        <3>1. \A l : Goto(c, l) => pc'[c] = l
            BY DEF Goto
        <3>2. ~End(c)
            BY <3>1 DEF End
        <3>3. ~Raise(c)
            BY <3>1 DEF Raise
        <3>4. Passed(c) # "commitments"
            BY DEF Passed
        <3>5. ~Begin(c) /\ (\A r \in Runs : ~Act(c, r)) /\ ~Crash(c)
            BY <3>1, <3>2 DEF Begin, Act, Crash
        <3>6. ~Acquire(c) /\ ~Fence(c) /\ ~Release(c)
            BY <3>1, <3>2, <3>3 DEF Acquire, Fence, Release
        <3>7. ~EnforceCaps(c) /\ ~Create(c) /\ ~Quote(c) /\ ~Restate(c)
            BY <3>1, <3>3, <3>4 DEF EnforceCaps, Create, Quote, Restate
        <3>8. ~OpenIntent(c) /\ ~Write(c) /\ ~Notify(c) /\ ~Fail(c)
            BY <3>1, <3>2, <3>3 DEF OpenIntent, Write, Notify, Fail
        <3>9. ReadSpend(c)
            BY <1>3, <2>3, <3>5, <3>6, <3>7, <3>8 DEF Serve
        <3> QED BY <2>1, <3>9 DEF ReadSpend
    <2> QED BY <2>2, <2>3
<1>4. ASSUME NEW r \in Runs, Complete(r)
      PROVE  spend'[c] = spent' \/ run'[job'[c].run].state = "completed"
    <2>1. pc[c] = "commitments" /\ job[c].stage = "final" /\ job'[c].run = job[c].run
        BY <1>4 DEF Complete
    <2>2. job[c].run = r
        BY <1>4, <2>1 DEF Complete
    <2>3. run'[r].state = "completed"
        BY <1>4 DEF Complete
    <2> QED BY <2>1, <2>2, <2>3
<1>5. ASSUME UNCHANGED <<pc, job, spend, spent>>
      PROVE  spend'[c] = spent' \/ run'[job'[c].run].state = "completed"
    BY <1>2, <1>5
<1> QED BY <1>3, <1>4, <1>5 DEF BudgetNext, budgetVars, Revalidate, Close, Expire

LEMMA HoldsOn ==
    ASSUME BudgetTypeOK, NEW c \in Callers, Holds(c), NEW d \in Callers, d # c,
           Begin(d) \/ (\E r \in Runs : Act(d, r)) \/ Serve(d) \/ Crash(d)
    PROVE  Holds(c)'
<1> USE DEF BudgetTypeOK, Holds
<1>1. lease.owner = c /\ lease.live /\ c # Nobody
    BY OwnersAssumption
<1>2. Acquire(d) => lease' = lease
    BY <1>1 DEF Acquire
<1>3. Release(d) \/ Crash(d) => lease' = lease
    BY <1>1 DEF Release, Crash
<1> QED BY <1>1, <1>2, <1>3 DEF Serve, Begin, Act, Fence, ReadSpend, EnforceCaps, Create,
           Quote, Restate, OpenIntent, Write, Notify, Fail

LEMMA HeldStep ==
    ASSUME BudgetTypeOK, PlaceInv, HeldInv, [BudgetNext]_budgetVars
    PROVE  HeldInv'
<1> DEFINE Needs(c) ==
        \/ job[c].op = "adjust" /\ pc[c] = "write"
        \/ /\ job[c].op = "reapprove" /\ job[c].stage = "final"
           /\ pc[c] \in {"spend", "commitments", "write"}
<1> SUFFICES ASSUME ~slipped', NEW c \in Callers, Needs(c)' PROVE Holds(c)'
    BY DEF HeldInv
<1> USE DEF BudgetTypeOK
<1>1. ~slipped /\ Place(c)
    BY SlippedStays DEF PlaceInv
<1>2. Needs(c) => Holds(c)
    BY <1>1 DEF HeldInv
<1>3. ASSUME NEW d \in Callers, d # c,
             Begin(d) \/ (\E r \in Runs : Act(d, r)) \/ Serve(d) \/ Crash(d)
      PROVE  Holds(c)'
    BY <1>2, <1>3, OthersStand, HoldsOn
<1>4. ASSUME Begin(c) \/ (\E r \in Runs : Act(c, r)) \/ Serve(c) \/ Crash(c) PROVE Holds(c)'
    <2>1. \A l : Goto(c, l) => pc'[c] = l
        BY DEF Goto
    <2>2. pc'[c] \in {"write", "spend", "commitments"}
        OBVIOUS
    <2>3. ~End(c) /\ ~Raise(c)
        BY <2>1, <2>2 DEF End, Raise
    <2>4. ~Begin(c) /\ ~Release(c) /\ ~Crash(c) /\ ~Create(c) /\ ~Quote(c) /\ ~Restate(c)
        BY <2>1, <2>2, <2>3 DEF Begin, Release, Crash, Create, Quote, Restate
    <2>5. ~OpenIntent(c) /\ ~Write(c) /\ ~Notify(c) /\ ~Fail(c)
        BY <2>1, <2>2, <2>3 DEF OpenIntent, Write, Notify, Fail
    <2>6. \A r \in Runs : ~Act(c, r)
        BY <2>1 DEF Act
    <2>7. ~Acquire(c)
        <3>1. Acquire(c) => pc[c] = "acquire" /\ job'[c] = job[c] /\ pc'[c] \in {"spend", "quote"}
            BY <2>1, <2>3 DEF Acquire
        <3> QED BY <1>1, <3>1 DEF Place
    <2>8. ASSUME Fence(c) PROVE Holds(c)'
        BY <2>3, <2>8 DEF Fence, Holds
    <2>9. ASSUME ReadSpend(c) PROVE Holds(c)'
        BY <1>2, <2>1, <2>9 DEF ReadSpend, Holds
    <2>10. ASSUME EnforceCaps(c) PROVE Holds(c)'
        <3>1. pc'[c] = Passed(c) /\ pc[c] = "commitments" /\ job' = job /\ lease' = lease
            BY <2>1, <2>3, <2>10 DEF EnforceCaps
        <3> QED BY <1>2, <3>1 DEF Passed, Holds
    <2> QED BY <1>4, <2>4, <2>5, <2>6, <2>7, <2>8, <2>9, <2>10 DEF Serve
<1>5. ASSUME Expire PROVE Holds(c)'
    <2>1. Needs(c) /\ slipped' = (slipped \/ \E d \in Callers :
                       /\ lease.owner = d /\ job[d].op \in {"adjust", "reapprove"}
                       /\ job[d].stage = "final"
                       /\ \/ pc[d] = "write"
                          \/ job[d].op = "reapprove" /\ pc[d] \in {"spend", "commitments"})
        BY <1>5 DEF Expire
    <2> QED BY <1>1, <1>2, <2>1 DEF Holds, Place
<1>6. ASSUME UNCHANGED <<lease, pc, job>> PROVE Holds(c)'
    BY <1>2, <1>6 DEF Holds
<1> QED BY <1>3, <1>4, <1>5, <1>6 DEF BudgetNext, budgetVars, Complete, Revalidate, Close

-----------------------------------------------------------------------------
(* The spend budget: its sums                                              *)

LEMMA RunsAreFinite == ASSUME NEW R \in SUBSET Runs PROVE IsFiniteSet(R)
BY RunsAssumption, FS_Subset

LEMMA DueType == ASSUME BudgetTypeOK PROVE Due \in [Runs -> Nat]
<1>1. \A q \in Runs : run[q].amount \in Amounts \cup {0}
    BY DEF BudgetTypeOK
<1>2. Amounts \cup {0} \subseteq Nat
    BY AmountsAssumption
<1> QED BY <1>1, <1>2 DEF Due

LEMMA DueTypeNext == ASSUME BudgetTypeOK' PROVE Due' \in [Runs -> Nat]
<1>1. \A q \in Runs : run'[q].amount \in Amounts \cup {0}
    BY DEF BudgetTypeOK
<1>2. Amounts \cup {0} \subseteq Nat
    BY AmountsAssumption
<1> QED BY <1>1, <1>2 DEF Due

LEMMA TotalType == ASSUME BudgetTypeOK, NEW R \in SUBSET Runs PROVE Total(R) \in Nat
BY DueType, RunsAreFinite, SumType DEF Total

LEMMA TotalTypeNext ==
    ASSUME BudgetTypeOK', NEW R \in SUBSET Runs PROVE SumFunctionOnSet(Due', R) \in Nat
BY DueTypeNext, RunsAreFinite, SumType

\* The same runs, or fewer of them, at amounts that have not grown.
LEMMA Shrinks ==
    ASSUME BudgetTypeOK, BudgetTypeOK', NEW R \in SUBSET Runs, NEW Q \in SUBSET R,
           \A q \in Q : run'[q].amount <= run[q].amount
    PROVE  SumFunctionOnSet(Due', Q) <= Total(R)
<1>1. Due \in [Runs -> Nat] /\ Due' \in [Runs -> Nat]
    BY DueType, DueTypeNext
<1>2. \A q \in Q : Due'[q] <= Due[q]
    BY DEF Due
<1>3. IsFiniteSet(Q) /\ IsFiniteSet(R)
    BY RunsAreFinite
<1>4. SumFunctionOnSet(Due', Q) <= SumFunctionOnSet(Due, Q)
    <2>1. Q \in SUBSET (Runs \cap Runs)
        OBVIOUS
    <2> QED BY <1>1, <1>2, <1>3, <2>1, SumMonotone
<1>5. SumFunctionOnSet(Due, Q) <= SumFunctionOnSet(Due, R)
    BY <1>1, <1>3, SumOfSubset
<1>6. /\ SumFunctionOnSet(Due', Q) \in Nat /\ SumFunctionOnSet(Due, Q) \in Nat
      /\ SumFunctionOnSet(Due, R) \in Nat
    BY <1>1, <1>3, SumType
<1> QED BY <1>4, <1>5, <1>6 DEF Total

\* A set of runs owes no more than one run and the others together.
LEMMA OneAndTheOthers ==
    ASSUME BudgetTypeOK', NEW R \in SUBSET Runs, NEW r \in Runs
    PROVE  SumFunctionOnSet(Due', R) <= run'[r].amount + SumFunctionOnSet(Due', R \ {r})
<1>1. Due' \in [Runs -> Nat] /\ IsFiniteSet(R)
    BY DueTypeNext, RunsAreFinite
<1>2. Due'[r] = run'[r].amount /\ Due'[r] \in Nat
    BY <1>1 DEF Due
<1>3. SumFunctionOnSet(Due', R \ {r}) \in Nat
    BY TotalTypeNext
<1>4. CASE r \in R
    BY <1>1, <1>2, <1>3, <1>4, SumTakes
<1>5. CASE r \notin R
    <2>1. R \ {r} = R
        BY <1>5
    <2>2. SumFunctionOnSet(Due', R \ {r}) = SumFunctionOnSet(Due', R)
        BY <2>1
    <2>3. run'[r].amount \in Nat
        BY <1>2
    <2> QED BY <1>3, <2>2, <2>3
<1> QED BY <1>4, <1>5

\* A run that is paid leaves the sum for what is spent.
LEMMA Moves ==
    ASSUME BudgetTypeOK, BudgetTypeOK', NEW R \in SUBSET Runs, NEW r \in R,
           NEW Q \in SUBSET (R \ {r}), \A q \in Q : run'[q].amount <= run[q].amount
    PROVE  run[r].amount + SumFunctionOnSet(Due', Q) <= Total(R)
<1>1. Due \in [Runs -> Nat] /\ IsFiniteSet(R) /\ r \in Runs
    BY DueType, RunsAreFinite
<1>2. Total(R) = run[r].amount + Total(R \ {r})
    BY <1>1, SumTakes DEF Total, Due
<1>3. SumFunctionOnSet(Due', Q) <= Total(R \ {r})
    BY Shrinks
<1>4. SumFunctionOnSet(Due', Q) \in Nat /\ Total(R \ {r}) \in Nat /\ run[r].amount \in Nat
    <2>1. Q \in SUBSET Runs
        OBVIOUS
    <2>2. run[r].amount = Due[r]
        BY <1>1 DEF Due
    <2> QED BY <1>1, <2>1, <2>2, TotalType, TotalTypeNext
<1> QED BY <1>2, <1>3, <1>4

-----------------------------------------------------------------------------
(* The spend budget: what can be committed                                 *)

\* Begin's run is fenced, or allowed, while its request is at these places.
BegunAt(c, q, places) ==
    Begins(c) /\ job[c].run = q /\ job[c].stage = "final" /\ pc[c] \in places

LEMMA FencedAndAllowed ==
    ASSUME PlaceInv
    PROVE  /\ Fenced = {q \in Runs : \/ run[q].state \in Committed
                                     \/ \E c \in Callers :
                                          BegunAt(c, q, {"spend", "commitments", "write"})}
           /\ Allowed = {q \in Runs : \/ run[q].state \in Committed
                                      \/ \E c \in Callers : BegunAt(c, q, {"write"})}
           /\ Allowed \subseteq Fenced
<1>1. \A c \in Callers : Begins(c) /\ pc[c] = "write" => job[c].stage = "final"
    BY DEF PlaceInv, Place
<1> QED BY <1>1 DEF Fenced, Allowed, BegunAt

LEMMA FencedAndAllowedNext ==
    ASSUME PlaceInv'
    PROVE  /\ Fenced' = {q \in Runs : \/ run'[q].state \in Committed
                                      \/ \E c \in Callers :
                                           BegunAt(c, q, {"spend", "commitments", "write"})'}
           /\ Allowed' = {q \in Runs : \/ run'[q].state \in Committed
                                       \/ \E c \in Callers : BegunAt(c, q, {"write"})'}
           /\ Allowed' \subseteq Fenced'
<1>1. \A c \in Callers : Begins(c)' /\ pc'[c] = "write" => job'[c].stage = "final"
    BY DEF PlaceInv, Place
<1> QED BY <1>1 DEF Fenced, Allowed, BegunAt, Committed

\* What is fenced counts as active.
LEMMA FencedIsActive ==
    ASSUME PlaceInv, OwnRunInv, NEW q \in Fenced
    PROVE  q \in Runs /\ run[q].state \in Active
<1>1. q \in Runs
    BY DEF Fenced
<1>2. CASE run[q].state \in Committed
    BY <1>1, <1>2 DEF Committed, Active
<1>3. ASSUME NEW c \in Callers, BegunAt(c, q, {"spend", "commitments", "write"})
      PROVE  run[q].state \in Active
    <2>1. OwnRun(c) /\ Place(c)
        BY DEF OwnRunInv, PlaceInv
    <2> QED BY <1>3, <2>1 DEF OwnRun, Place, BegunAt, Active
<1> QED BY <1>1, <1>2, <1>3, FencedAndAllowed

\* A run that is newly in reach of a commitment, or at a new amount, is the one
\* of the request that steps.
LEMMA NewlyCommitted ==
    ASSUME BudgetTypeOK, PlaceInv, OwnRunInv, ~slipped', NEW c \in Callers,
           Begin(c) \/ (\E r \in Runs : Act(c, r)) \/ Serve(c) \/ Crash(c),
           NEW q \in Runs, run'[q].state \in Committed
    PROVE  \/ /\ run'[q].amount = run[q].amount
              /\ run[q].state \in Committed \/ BegunAt(c, q, {"write"})
           \/ q = job[c].run /\ Write(c) /\ job[c].op \in {"adjust", "reapprove"}
<1> USE DEF BudgetTypeOK
<1>0. OwnRun(c) /\ Place(c) /\ job[c] \in Job
    BY DEF OwnRunInv, PlaceInv
<1>1. CASE run'[q] = run[q]
    BY <1>1
<1>2. CASE Create(c) \/ Restate(c) \/ Fail(c)
    <2>1. ASSUME Create(c) PROVE run'[q] = run[q]
        <3>1. \/ run' = run
              \/ \E r \in Runs, st \in {"quote_pending", "triggered"} :
                   run' = [run EXCEPT ![r] = [state |-> st, amount |-> job[c].amount]]
            BY <2>1 DEF Create
        <3>2. ASSUME NEW r \in Runs, NEW st \in {"quote_pending", "triggered"},
                     run' = [run EXCEPT ![r] = [state |-> st, amount |-> job[c].amount]]
              PROVE  run'[q] = run[q]
            BY <3>2 DEF Committed
        <3> QED BY <3>1, <3>2
    <2>2. Restate(c) => run'[q] = run[q]
        BY DEF Restate, Committed
    <2>3. Fail(c) => run'[q] = run[q]
        BY DEF Fail, Committed
    <2> QED BY <1>1, <1>2, <2>1, <2>2, <2>3
<1>3. CASE Notify(c)
    <2>1. CASE q = job[c].run
        <3>1. Begins(c)
            BY <1>0, <1>3 DEF Place, Notify, Begins, Job, Op
        <3>2. run[q].state \in Committed
            BY <1>0, <1>3, <2>1, <3>1 DEF OwnRun, Notify, Committed
        <3> QED BY <1>3, <2>1, <3>2 DEF Notify
    <2>2. CASE q # job[c].run
        BY <1>1, <1>3, <2>2 DEF Notify
    <2> QED BY <2>1, <2>2
<1>4. CASE Write(c) /\ run'[q] # run[q]
    <2>1. q = job[c].run
        BY <1>4 DEF Write
    <2>2. CASE job[c].op = "begin"
        <3>1. BegunAt(c, q, {"write"})
            BY <1>0, <1>4, <2>1, <2>2, RunsAssumption DEF Write, Begins, Place, BegunAt
        <3>2. run'[q].amount = run[q].amount
            BY <1>0, <1>4, <2>1, <2>2, <3>1 DEF Write, OwnRun, BegunAt
        <3> QED BY <3>1, <3>2
    <2>3. CASE job[c].op = "approve"
        <3>1. run[q].state \in {"notified", "reapproval_required"} /\ run'[q].amount = run[q].amount
            BY <1>4, <2>1, <2>3 DEF Write
        <3>2. run[q].state # "reapproval_required"
            BY <1>4, <2>1, <2>3, <3>1 DEF Write
        <3> QED BY <3>1, <3>2 DEF Committed
    <2>4. CASE job[c].op \in {"adjust", "reapprove"}
        BY <1>4, <2>1, <2>4
    <2> QED BY <1>0, <1>4, <2>2, <2>3, <2>4 DEF Place, Write, Job, Op
<1> QED BY <1>1, <1>2, <1>3, <1>4 DEF Serve, Begin, Act, Crash, Acquire, Fence, Release,
           ReadSpend, EnforceCaps, Quote, OpenIntent

LEMMA NewlyBegun ==
    ASSUME BudgetTypeOK, PlaceInv, OwnRunInv, NEW c \in Callers,
           Begin(c) \/ (\E r \in Runs : Act(c, r)) \/ Serve(c) \/ Crash(c),
           NEW q \in Runs, NEW d \in Callers,
           BegunAt(d, q, {"spend", "commitments", "write"})'
    PROVE  /\ run'[q].amount = run[q].amount
           /\ \/ BegunAt(d, q, {"spend", "commitments", "write"}) /\ pc'[d] = pc[d]
              \/ d = c /\ Fence(c) /\ Begins(c) /\ q = job[c].run /\ pc'[c] = "spend"
              \/ d = c /\ ReadSpend(c) /\ Begins(c) /\ q = job[c].run /\ pc'[c] = "commitments"
                 /\ BegunAt(c, q, {"spend"})
              \/ d = c /\ EnforceCaps(c) /\ Begins(c) /\ q = job[c].run /\ pc'[c] = "write"
                 /\ BegunAt(c, q, {"commitments"})
<1> USE DEF BudgetTypeOK
<1>1. CASE d # c
    <2>1. pc'[d] = pc[d] /\ job'[d] = job[d]
        BY <1>1, OthersStand
    <2>2. BegunAt(d, q, {"spend", "commitments", "write"})
        BY <2>1 DEF BegunAt, Begins
    <2>3. run'[q] = run[q]
        BY <1>1, <2>2, OwnRunOfOthers DEF BegunAt
    <2> QED BY <2>1, <2>2, <2>3
<1>2. CASE d = c
    <2>0. Place(c) /\ job[c] \in Job
        BY DEF PlaceInv
    <2>1. /\ pc'[c] \in {"spend", "commitments", "write"}
          /\ Begins(c)' /\ job'[c].run = q /\ job'[c].stage = "final"
        BY <1>2 DEF BegunAt
    <2>2. \A l : Goto(c, l) => pc'[c] = l
        BY DEF Goto
    <2>3. ~End(c) /\ ~Raise(c)
        BY <2>1, <2>2 DEF End, Raise
    <2>4. ~Begin(c) /\ ~Release(c) /\ ~Crash(c) /\ ~Create(c) /\ ~Quote(c) /\ ~Restate(c)
        BY <2>1, <2>2, <2>3 DEF Begin, Release, Crash, Create, Quote, Restate
    <2>5. ~OpenIntent(c) /\ ~Write(c) /\ ~Notify(c) /\ ~Fail(c)
        BY <2>1, <2>2, <2>3 DEF OpenIntent, Write, Notify, Fail
    <2>6. \A r \in Runs : ~Act(c, r)
        BY <2>1, <2>2 DEF Act, Begins
    <2>7. ~Acquire(c)
        <3>1. Acquire(c) => pc[c] = "acquire" /\ job'[c] = job[c]
            BY <2>2, <2>3 DEF Acquire
        <3> QED BY <2>0, <2>1, <3>1 DEF Place, Begins
    <2>8. Fence(c) \/ ReadSpend(c) \/ EnforceCaps(c)
        BY <2>4, <2>5, <2>6, <2>7 DEF Serve
    <2>9. job' = job /\ run' = run
        BY <2>8 DEF Fence, ReadSpend, EnforceCaps
    <2>10. Begins(c) /\ job[c].run = q /\ job[c].stage = "final"
        BY <2>1, <2>9 DEF Begins
    <2>11. Fence(c) => pc'[c] = "spend"
        BY <2>2, <2>3, <2>10 DEF Fence, Begins
    <2>12. ReadSpend(c) => pc'[c] = "commitments" /\ pc[c] = "spend"
        BY <2>2 DEF ReadSpend
    <2>13. EnforceCaps(c) => pc'[c] = "write" /\ pc[c] = "commitments"
        BY <2>2, <2>3, <2>10 DEF EnforceCaps, Passed, Begins
    <2> QED BY <1>2, <2>8, <2>9, <2>10, <2>11, <2>12, <2>13 DEF BegunAt
<1> QED BY <1>1, <1>2

\* What goes on besides the requests brings no run into reach.
LEMMA ReachBesides ==
    ASSUME BudgetTypeOK, PlaceInv, PlaceInv', OwnRunInv, NEW r \in Runs,
           Complete(r) \/ Revalidate(r) \/ Close(r), NEW q \in Fenced'
    PROVE  /\ q \in Fenced /\ run'[q].amount <= run[q].amount
           /\ q \in Allowed' => q \in Allowed
           /\ Complete(r) => q # r /\ r \in Allowed
<1> USE DEF BudgetTypeOK
<1>0. q \in Runs /\ UNCHANGED <<pc, job>>
    BY DEF Fenced, Complete, Revalidate, Close
<1>1. \A d \in Callers : \A places : BegunAt(d, q, places)' => BegunAt(d, q, places)
    BY <1>0 DEF BegunAt, Begins
<1>2. run[q].amount \in Nat
    <2>1. Amounts \cup {0} \subseteq Nat
        BY AmountsAssumption
    <2> QED BY <1>0, <2>1
<1>3. Complete(r) => r \in Allowed
    BY FencedAndAllowed DEF Complete, Committed
<1>4. CASE q # r
    <2>1. run'[q] = run[q]
        BY <1>0, <1>4 DEF Complete, Revalidate, Close
    <2> QED BY <1>0, <1>1, <1>2, <1>3, <1>4, <2>1, FencedAndAllowed, FencedAndAllowedNext
<1>5. CASE q = r
    <2>1. ASSUME NEW d \in Callers, BegunAt(d, q, {"spend", "commitments", "write"}) PROVE FALSE
        <3>1. OwnRun(d)
            BY DEF OwnRunInv
        <3>2. run[q].state = "triggered"
            BY <2>1, <3>1 DEF OwnRun, BegunAt
        <3> QED BY <1>5, <3>2 DEF Complete, Revalidate, Close
    <2>2. run'[q].state \in Committed
        BY <1>0, <1>1, <2>1, FencedAndAllowedNext
    <2>3. Revalidate(r)
        BY <1>5, <2>2 DEF Complete, Close, Committed
    <2>4. run[q].state \in Committed
        BY <1>5, <2>3 DEF Revalidate, Committed
    <2>5. run'[q].amount <= run[q].amount
        BY <1>5, <2>2, <2>3 DEF Revalidate, Committed
    <2>6. ~Complete(r)
        BY <1>5, <2>2 DEF Complete, Committed
    <2> QED BY <1>0, <2>4, <2>5, <2>6, FencedAndAllowed
<1> QED BY <1>4, <1>5

LEMMA HeldBefore ==
    ASSUME BudgetTypeOK, NEW c \in Callers, Holds(c)', NEW d \in Callers, d # c,
           Begin(d) \/ (\E r \in Runs : Act(d, r)) \/ Serve(d) \/ Crash(d)
    PROVE  Holds(c)
<1> USE DEF BudgetTypeOK, Holds
<1>1. c # Nobody /\ c # Dead
    BY OwnersAssumption
<1>2. lease' = lease => Holds(c)
    OBVIOUS
<1>3. Acquire(d) => lease' = lease
    BY DEF Acquire
<1>4. Release(d) => lease' = lease
    BY <1>1 DEF Release
<1>5. Crash(d) => lease' = lease
    BY <1>1 DEF Crash
<1> QED BY <1>2, <1>3, <1>4, <1>5 DEF Serve, Begin, Act, Fence, ReadSpend, EnforceCaps, Create,
           Quote, Restate, OpenIntent, Write, Notify, Fail

\* Who becomes entitled has just passed a check.
LEMMA EntitledBefore ==
    ASSUME BudgetTypeOK, PlaceInv, OwnRunInv, [BudgetNext]_budgetVars,
           NEW c \in Callers, Entitled(c)'
    PROVE  /\ job'[c] = job[c] /\ job[c].run \in Runs
           /\ \/ Entitled(c)
              \/ (EnforceCaps(c) /\ pc'[c] = Passed(c))
<1> USE DEF BudgetTypeOK
<1>1. /\ \/ job'[c].op = "adjust" /\ pc'[c] \in {"fence", "write"}
         \/ job'[c].op = "reapprove" /\ pc'[c] = "write"
      /\ Holds(c)'
      /\ run'[job'[c].run].state # "completed"
    BY DEF Entitled
<1>2. Place(c) /\ job[c] \in Job
    BY DEF PlaceInv
<1>3. job'[c] = job[c] => job[c].run \in Runs
    BY <1>1, <1>2 DEF Place, Job
<1>4. job'[c] = job[c] => run[job[c].run].state # "completed"
    BY <1>1, <1>3, PaidStaysPaid
<1>5. job'[c] = job[c] /\ pc'[c] = pc[c] /\ Holds(c) => Entitled(c)
    BY <1>1, <1>4 DEF Entitled
<1>6. ASSUME NEW d \in Callers, d # c,
             Begin(d) \/ (\E r \in Runs : Act(d, r)) \/ Serve(d) \/ Crash(d)
      PROVE  job'[c] = job[c] /\ Entitled(c)
    BY <1>1, <1>5, <1>6, OthersStand, HeldBefore
<1>7. ASSUME Begin(c) \/ (\E r \in Runs : Act(c, r)) \/ Serve(c) \/ Crash(c)
      PROVE  /\ job'[c] = job[c]
             /\ Entitled(c) \/ (EnforceCaps(c) /\ pc'[c] = Passed(c))
    <2>1. \A l : Goto(c, l) => pc'[c] = l
        BY DEF Goto
    <2>2. ~End(c) /\ ~Raise(c)
        BY <1>1, <2>1 DEF End, Raise
    <2>3. ~Begin(c) /\ ~Release(c) /\ ~Crash(c) /\ ~Create(c) /\ ~Restate(c) /\ ~ReadSpend(c)
        BY <1>1, <2>1, <2>2 DEF Begin, Release, Crash, Create, Restate, ReadSpend
    <2>4. ~Write(c) /\ ~Notify(c) /\ ~Fail(c) /\ ~Acquire(c)
        BY <1>1, <2>1, <2>2 DEF Write, Notify, Fail, Acquire
    <2>5. \A r \in Runs : ~Act(c, r)
        BY <1>1, <2>1 DEF Act
    <2>6. ~Quote(c)
        <3>1. Quote(c) => pc'[c] = "fence" /\ pc[c] = "quote" /\ job'[c].op = job[c].op
            BY <1>2, <2>1, <2>2 DEF Quote, Job
        <3> QED BY <1>1, <1>2, <3>1 DEF Place
    <2>7. ~OpenIntent(c)
        <3>1. OpenIntent(c) => pc'[c] = "fence" /\ pc[c] = "intent" /\ job'[c].op = job[c].op
            BY <1>2, <2>1, <2>2 DEF OpenIntent, Job
        <3> QED BY <1>1, <1>2, <3>1 DEF Place
    <2>8. ASSUME Fence(c) PROVE job'[c] = job[c] /\ Entitled(c)
        <3>1. job'[c] = job[c] /\ pc[c] = "fence" /\ Holds(c)
            BY <2>2, <2>8 DEF Fence, Holds
        <3>2. job[c].op = "adjust"
            BY <1>1, <2>1, <2>2, <2>8, <3>1 DEF Fence
        <3> QED BY <1>4, <3>1, <3>2 DEF Entitled
    <2>9. ASSUME EnforceCaps(c) PROVE job'[c] = job[c] /\ pc'[c] = Passed(c)
        BY <2>1, <2>2, <2>9 DEF EnforceCaps
    <2> QED BY <1>7, <2>3, <2>4, <2>5, <2>6, <2>7, <2>8, <2>9 DEF Serve
<1>8. ASSUME NEW r \in Runs, Complete(r) \/ Revalidate(r) \/ Close(r)
      PROVE  job'[c] = job[c] /\ Entitled(c)
    BY <1>1, <1>5, <1>8 DEF Complete, Revalidate, Close, Holds
<1>9. ~Expire
    BY <1>1 DEF Expire, Holds
<1>10. UNCHANGED budgetVars => job'[c] = job[c] /\ Entitled(c)
    BY <1>1, <1>5 DEF budgetVars, Holds
<1> QED BY <1>3, <1>6, <1>7, <1>8, <1>9, <1>10 DEF BudgetNext

\* What a request's step leaves in reach was in reach, at an amount not higher,
\* unless it is the request's own run at a deciding step.
LEMMA FencedBefore ==
    ASSUME BudgetTypeOK, PlaceInv, PlaceInv', OwnRunInv, ~slipped', NEW c \in Callers,
           Begin(c) \/ (\E r \in Runs : Act(c, r)) \/ Serve(c) \/ Crash(c), NEW q \in Fenced'
    PROVE  \/ q \in Fenced /\ run'[q].amount <= run[q].amount
           \/ /\ q = job[c].run
              /\ \/ Fence(c) /\ Begins(c) /\ pc'[c] = "spend"
                 \/ Write(c) /\ job[c].op \in {"adjust", "reapprove"}
<1>0. q \in Runs
    BY DEF Fenced
<1>1. run'[q].amount = run[q].amount => run'[q].amount <= run[q].amount
    <2>1. Amounts \cup {0} \subseteq Nat /\ run[q].amount \in Amounts \cup {0}
        BY <1>0, AmountsAssumption DEF BudgetTypeOK
    <2> QED BY <2>1
<1>2. \A d \in Callers : \A p \in {"spend", "commitments", "write"} :
        BegunAt(d, q, {p}) => BegunAt(d, q, {"spend", "commitments", "write"})
    BY DEF BegunAt
<1>3. \A d \in Callers : BegunAt(d, q, {"spend", "commitments", "write"}) => q \in Fenced
    BY <1>0, FencedAndAllowed
<1>4. CASE run'[q].state \in Committed
    BY <1>0, <1>1, <1>2, <1>3, <1>4, NewlyCommitted, FencedAndAllowed
<1>5. ASSUME NEW d \in Callers, BegunAt(d, q, {"spend", "commitments", "write"})'
      PROVE  \/ q \in Fenced /\ run'[q].amount <= run[q].amount
             \/ q = job[c].run /\ Fence(c) /\ Begins(c) /\ pc'[c] = "spend"
    BY <1>0, <1>1, <1>2, <1>3, <1>5, NewlyBegun
<1> QED BY <1>4, <1>5, FencedAndAllowedNext

LEMMA AllowedBefore ==
    ASSUME BudgetTypeOK, PlaceInv, PlaceInv', OwnRunInv, ~slipped', NEW c \in Callers,
           Begin(c) \/ (\E r \in Runs : Act(c, r)) \/ Serve(c) \/ Crash(c), NEW q \in Allowed'
    PROVE  \/ q \in Allowed /\ run'[q].amount <= run[q].amount
           \/ /\ q = job[c].run
              /\ \/ /\ EnforceCaps(c) /\ pc'[c] = "write"
                    /\ BegunAt(c, q, {"commitments"})
                 \/ Write(c) /\ job[c].op \in {"adjust", "reapprove"}
<1>0. q \in Runs
    BY DEF Allowed
<1>1. run'[q].amount = run[q].amount => run'[q].amount <= run[q].amount
    <2>1. Amounts \cup {0} \subseteq Nat /\ run[q].amount \in Amounts \cup {0}
        BY <1>0, AmountsAssumption DEF BudgetTypeOK
    <2> QED BY <2>1
<1>2. \A d \in Callers : BegunAt(d, q, {"write"}) => q \in Allowed
    BY <1>0, FencedAndAllowed
<1>3. CASE run'[q].state \in Committed
    BY <1>0, <1>1, <1>2, <1>3, NewlyCommitted, FencedAndAllowed
<1>4. ASSUME NEW d \in Callers, BegunAt(d, q, {"write"})'
      PROVE  \/ q \in Allowed /\ run'[q].amount <= run[q].amount
             \/ /\ q = job[c].run /\ EnforceCaps(c) /\ pc'[c] = "write"
                /\ BegunAt(c, q, {"commitments"})
    <2>1. BegunAt(d, q, {"spend", "commitments", "write"})' /\ pc'[d] = "write"
        BY <1>4 DEF BegunAt
    <2>2. BegunAt(d, q, {"spend", "commitments", "write"}) /\ pc'[d] = pc[d]
            => BegunAt(d, q, {"write"})
        BY <2>1 DEF BegunAt
    <2> QED BY <1>0, <1>1, <1>2, <2>1, <2>2, NewlyBegun
<1> QED BY <1>3, <1>4, FencedAndAllowedNext

-----------------------------------------------------------------------------
(* The spend budget: the cap                                               *)

LEMMA RoomStep ==
    ASSUME BudgetTypeOK, BudgetTypeOK', PlaceInv, PlaceInv', OwnRunInv, ReadInv, HeldInv,
           RoomInv, [BudgetNext]_budgetVars
    PROVE  RoomInv'
<1> SUFFICES ASSUME ~slipped', NEW c \in Callers, Entitled(c)'
             PROVE  spent' + SumFunctionOnSet(Due', Fenced' \ {job'[c].run}) + job'[c].amount
                    <= Cap
    BY DEF RoomInv, Total
<1>1. ~slipped
    BY SlippedStays
<1>2. /\ job'[c] = job[c] /\ job[c].run \in Runs
      /\ \/ Entitled(c)
         \/ (EnforceCaps(c) /\ pc'[c] = Passed(c))
    BY EntitledBefore
<1>3. PICK r \in Runs : r = job[c].run
    BY <1>2
<1> DEFINE R == Fenced \ {r}
           Q == Fenced' \ {r}
<1>4. R \in SUBSET Runs /\ Q \in SUBSET Runs
    BY DEF Fenced
<1>5. /\ spent \in Nat /\ spent' \in Nat /\ job[c].amount \in Nat
      /\ SumFunctionOnSet(Due', Q) \in Nat /\ Total(R) \in Nat
    <2>1. Amounts \cup {0} \subseteq Nat /\ job[c] \in Job
        BY AmountsAssumption DEF BudgetTypeOK
    <2> QED BY <1>4, <2>1, TotalType, TotalTypeNext DEF BudgetTypeOK, Job
<1>6. SUFFICES spent' + SumFunctionOnSet(Due', Q) + job[c].amount <= Cap
    BY <1>2, <1>3
<1>7. CASE Entitled(c)
    <2>1. spent + Total(R) + job[c].amount <= Cap
        BY <1>1, <1>3, <1>7 DEF RoomInv
    <2>2. Holds(c) /\ job[c].op \in {"adjust", "reapprove"}
        BY <1>7 DEF Entitled
    <2>3. SUFFICES spent' + SumFunctionOnSet(Due', Q) <= spent + Total(R)
        <3> HIDE DEF Q, R
        <3> QED BY <1>5, <2>1, <2>3, CapAssumption
    <2>4. ASSUME Q \subseteq R, \A q \in Q : run'[q].amount <= run[q].amount, spent' = spent
          PROVE  spent' + SumFunctionOnSet(Due', Q) <= spent + Total(R)
        <3>1. SumFunctionOnSet(Due', Q) <= Total(R)
            BY <1>4, <2>4, Shrinks
        <3> HIDE DEF Q, R
        <3> QED BY <1>5, <2>4, <3>1
    <2>5. ASSUME NEW d \in Callers,
                 Begin(d) \/ (\E x \in Runs : Act(d, x)) \/ Serve(d) \/ Crash(d)
          PROVE  spent' + SumFunctionOnSet(Due', Q) <= spent + Total(R)
        <3>1. ASSUME Write(d), job[d].op \in {"adjust", "reapprove"} PROVE job[d].run = r
            <4>1. Place(d) /\ pc[d] = "write"
                BY <3>1 DEF PlaceInv, Write
            <4>2. Holds(d)
                BY <1>1, <3>1, <4>1 DEF HeldInv, Place
            <4> QED BY <1>3, <2>2, <4>2 DEF Holds
        <3>2. ASSUME Fence(d), Begins(d), pc'[d] = "spend" PROVE FALSE
            <4>1. \A l : Goto(d, l) => pc'[d] = l
                BY DEF Goto, BudgetTypeOK
            <4>2. ~Raise(d)
                BY <3>2, <4>1 DEF Raise
            <4>3. Holds(d)
                BY <3>2, <4>2 DEF Fence, Holds
            <4> QED BY <2>2, <3>2, <4>3 DEF Holds, Begins
        <3>3. \A q \in Q : q \in R /\ run'[q].amount <= run[q].amount
            BY <2>5, <3>1, <3>2, FencedBefore
        <3>4. spent' = spent
            BY <2>5 DEF Serve, Begin, Act, Crash, Acquire, Fence, Release, ReadSpend, EnforceCaps,
               Create, Quote, Restate, OpenIntent, Write, Notify, Fail
        <3> HIDE DEF Q, R
        <3> QED BY <2>4, <3>3, <3>4
    <2>6. ASSUME NEW x \in Runs, Complete(x)
          PROVE  spent' + SumFunctionOnSet(Due', Q) <= spent + Total(R)
        <3>1. x # r
            BY <1>2, <1>3, <2>6 DEF Entitled, Complete, BudgetTypeOK
        <3>2. x \in R
            BY <2>6, <3>1, FencedAndAllowed DEF Complete, Committed
        <3>3. \A q \in Q : q \in R \ {x} /\ run'[q].amount <= run[q].amount
            BY <2>6, ReachBesides
        <3>4. Q \in SUBSET (R \ {x})
            BY <3>3
        <3>5. run[x].amount + SumFunctionOnSet(Due', Q) <= Total(R)
            <4> HIDE DEF Q, R
            <4> QED BY <1>4, <3>2, <3>3, <3>4, Moves
        <3>6. spent' = spent + run[x].amount /\ run[x].amount \in Nat
            <4>1. Amounts \cup {0} \subseteq Nat /\ run[x].amount \in Amounts \cup {0}
                BY AmountsAssumption DEF BudgetTypeOK
            <4> QED BY <2>6, <4>1 DEF Complete
        <3> HIDE DEF Q, R
        <3> QED BY <1>5, <3>5, <3>6
    <2>7. ASSUME NEW x \in Runs, Revalidate(x) \/ Close(x)
          PROVE  spent' + SumFunctionOnSet(Due', Q) <= spent + Total(R)
        <3>1. \A q \in Q : q \in R /\ run'[q].amount <= run[q].amount
            BY <2>7, ReachBesides
        <3>2. spent' = spent
            BY <2>7 DEF Revalidate, Close
        <3> HIDE DEF Q, R
        <3> QED BY <2>4, <3>1, <3>2
    <2>8. ASSUME Expire \/ UNCHANGED budgetVars
          PROVE  spent' + SumFunctionOnSet(Due', Q) <= spent + Total(R)
        <3>1. UNCHANGED <<run, pc, job, spent>>
            BY <2>8 DEF Expire, budgetVars
        <3>2. Q = R /\ \A q \in Q : run'[q].amount <= run[q].amount
            <4>1. Fenced' = Fenced
                BY <3>1 DEF Fenced, Begins, Committed
            <4>2. \A q \in Runs : run[q].amount \in Amounts \cup {0}
                BY DEF BudgetTypeOK
            <4>3. Amounts \cup {0} \subseteq Nat
                BY AmountsAssumption
            <4> QED BY <1>4, <3>1, <4>1, <4>2, <4>3
        <3> HIDE DEF Q, R
        <3> QED BY <2>4, <3>1, <3>2
    <2> QED BY <2>5, <2>6, <2>7, <2>8 DEF BudgetNext
<1>8. CASE EnforceCaps(c) /\ pc'[c] = Passed(c)
    <2> DEFINE A == {q \in Runs \ {r} : run[q].state \in Active}
    <2>1. UNCHANGED <<run, spent, job, lease>> /\ pc[c] = "commitments"
        BY <1>8 DEF EnforceCaps
    <2>2. job[c].stage = "final" /\ run[r].state # "completed"
          /\ job[c].op \in {"adjust", "reapprove"}
        <3>1. Place(c)
            BY DEF PlaceInv
        <3>2. /\ \/ job[c].op = "adjust"
                 \/ job[c].op = "reapprove" /\ Passed(c) = "write"
              /\ run[r].state # "completed"
            BY <1>3, <1>8, <2>1 DEF Entitled
        <3> QED BY <2>1, <3>1, <3>2 DEF Place, Passed
    <2>3. spend[c] = spent
        BY <1>1, <1>3, <2>1, <2>2 DEF ReadInv
    <2>4. spent + Total(A) + job[c].amount <= Cap
        <3>1. ~Raise(c)
            <4>1. \A l : Goto(c, l) => pc'[c] = l
                BY DEF Goto, BudgetTypeOK
            <4>2. Raise(c) => pc'[c] = "release"
                BY <2>2, <4>1 DEF Raise
            <4>3. Passed(c) # "release"
                BY DEF Passed
            <4> QED BY <1>8, <4>2, <4>3
        <3>2. spend[c] + Sum(Active, job[c].run) + job[c].amount <= Cap
            BY <1>8, <3>1 DEF EnforceCaps
        <3> QED BY <1>3, <2>3, <3>2 DEF Sum
    <2>5. \A q \in Q : q \in A /\ run'[q].amount <= run[q].amount
        <3>1. ASSUME NEW q \in Q PROVE q \in Fenced /\ run'[q].amount <= run[q].amount
            <4>1. Serve(c) /\ ~Fence(c) /\ ~Write(c)
                BY <1>8, <2>1 DEF Serve, Fence, Write
            <4> QED BY <4>1, FencedBefore
        <3> QED BY <3>1, FencedIsActive
    <2>6. A \in SUBSET Runs /\ Q \in SUBSET A
        BY <2>5
    <2>7. SumFunctionOnSet(Due', Q) <= Total(A) /\ Total(A) \in Nat
        <3> HIDE DEF Q, A
        <3> QED BY <2>5, <2>6, Shrinks, TotalType
    <2> HIDE DEF Q, A
    <2> QED BY <1>5, <2>1, <2>4, <2>7, CapAssumption
<1> QED BY <1>2, <1>7, <1>8

LEMMA FitStep ==
    ASSUME BudgetTypeOK, BudgetTypeOK', PlaceInv, PlaceInv', OwnRunInv, ReadInv, HeldInv,
           RoomInv, FitInv, [BudgetNext]_budgetVars
    PROVE  FitInv'
<1> SUFFICES ASSUME ~slipped'
             PROVE  spent' + SumFunctionOnSet(Due', Allowed') <= Cap
    BY DEF FitInv, Total
<1>1. ~slipped
    BY SlippedStays
<1>2. spent + Total(Allowed) <= Cap
    BY <1>1 DEF FitInv
<1>3. Allowed \in SUBSET Runs /\ Allowed' \in SUBSET Runs
    BY DEF Allowed
<1>4. /\ spent \in Nat /\ spent' \in Nat
      /\ SumFunctionOnSet(Due', Allowed') \in Nat /\ Total(Allowed) \in Nat
    BY <1>3, TotalType, TotalTypeNext DEF BudgetTypeOK
<1>5. ASSUME \A q \in Allowed' : q \in Allowed /\ run'[q].amount <= run[q].amount,
             spent' = spent
      PROVE  spent' + SumFunctionOnSet(Due', Allowed') <= Cap
    <2>1. SumFunctionOnSet(Due', Allowed') <= Total(Allowed)
        BY <1>3, <1>5, Shrinks
    <2> QED BY <1>2, <1>4, <1>5, <2>1, CapAssumption
\* One run is newly allowed an amount that the others leave room for.
<1>6. ASSUME NEW r \in Runs, NEW R \in SUBSET Runs, NEW a \in Nat, spent' = spent,
             run'[r].amount <= a, spent + Total(R) + a <= Cap,
             \A q \in Allowed' \ {r} : q \in R /\ run'[q].amount <= run[q].amount
      PROVE  spent' + SumFunctionOnSet(Due', Allowed') <= Cap
    <2> DEFINE Q == Allowed' \ {r}
    <2>1. Q \in SUBSET R
        BY <1>6
    <2>2. SumFunctionOnSet(Due', Q) <= Total(R)
        <3> HIDE DEF Q
        <3>1. \A q \in Q : run'[q].amount <= run[q].amount
            BY <1>6 DEF Q
        <3> QED BY <2>1, <3>1, Shrinks
    <2>3. SumFunctionOnSet(Due', Allowed') <= run'[r].amount + SumFunctionOnSet(Due', Q)
        BY <1>3, OneAndTheOthers
    <2>4. run'[r].amount \in Nat
        <3>1. Amounts \cup {0} \subseteq Nat /\ run'[r].amount \in Amounts \cup {0}
            BY AmountsAssumption DEF BudgetTypeOK
        <3> QED BY <3>1
    <2>5. SumFunctionOnSet(Due', Q) \in Nat /\ Total(R) \in Nat
        <3> HIDE DEF Q
        <3>1. Q \in SUBSET Runs
            BY <2>1
        <3> QED BY <3>1, TotalType, TotalTypeNext
    <2> HIDE DEF Q
    <2> QED BY <1>4, <1>6, <2>2, <2>3, <2>4, <2>5, CapAssumption
<1>7. ASSUME NEW c \in Callers,
             Begin(c) \/ (\E x \in Runs : Act(c, x)) \/ Serve(c) \/ Crash(c)
      PROVE  spent' + SumFunctionOnSet(Due', Allowed') <= Cap
    <2>0. job[c] \in Job /\ Place(c) /\ OwnRun(c) /\ job[c].amount \in Nat
        <3>1. Amounts \cup {0} \subseteq Nat /\ job[c] \in Job
            BY AmountsAssumption DEF BudgetTypeOK
        <3> QED BY <3>1 DEF PlaceInv, OwnRunInv, Job
    <2>1. spent' = spent
        BY <1>7 DEF Serve, Begin, Act, Crash, Acquire, Fence, Release, ReadSpend, EnforceCaps,
           Create, Quote, Restate, OpenIntent, Write, Notify, Fail
    <2>2. CASE \A q \in Allowed' : q \in Allowed /\ run'[q].amount <= run[q].amount
        BY <1>5, <2>1, <2>2
    <2>3. ASSUME NEW r \in Runs, r = job[c].run, EnforceCaps(c), pc'[c] = "write",
                 BegunAt(c, r, {"commitments"})
          PROVE  spent' + SumFunctionOnSet(Due', Allowed') <= Cap
        <3> DEFINE A == {q \in Runs \ {r} : run[q].state \in Active}
        <3>1. run' = run /\ pc[c] = "commitments" /\ job[c].stage = "final" /\ Begins(c)
            BY <2>3 DEF EnforceCaps, BegunAt
        <3>2. run[r].state = "triggered" /\ run[r].amount = job[c].amount
            BY <2>0, <2>3, <3>1 DEF OwnRun
        <3>3. spend[c] = spent
            BY <1>1, <2>3, <3>1, <3>2 DEF ReadInv
        <3>4. ~Raise(c)
            <4>1. \A l : Goto(c, l) => pc'[c] = l
                BY DEF Goto, BudgetTypeOK
            <4> QED BY <2>3, <4>1 DEF Raise
        <3>5. spent + Total(A) + job[c].amount <= Cap
            BY <2>3, <3>3, <3>4 DEF EnforceCaps, Sum
        <3>6. \A q \in Allowed' \ {r} : q \in A /\ run'[q].amount <= run[q].amount
            <4>1. ASSUME NEW q \in Allowed' \ {r}
                  PROVE  q \in Allowed /\ run'[q].amount <= run[q].amount
                BY <1>7, <2>3, <4>1, AllowedBefore DEF EnforceCaps, Write
            <4>2. \A q \in Allowed : q \in Runs /\ run[q].state \in Active
                BY FencedAndAllowed, FencedIsActive
            <4> QED BY <4>1, <4>2
        <3>7. run'[r].amount <= job[c].amount
            BY <2>0, <3>1, <3>2
        <3>8. A \in SUBSET Runs
            OBVIOUS
        <3> HIDE DEF A
        <3> QED BY <1>6, <2>0, <2>1, <3>5, <3>6, <3>7, <3>8
    <2>4. ASSUME NEW r \in Runs, r = job[c].run, Write(c), job[c].op \in {"adjust", "reapprove"},
                 r \in Allowed', ~(r \in Allowed /\ run'[r].amount <= run[r].amount)
          PROVE  spent' + SumFunctionOnSet(Due', Allowed') <= Cap
        <3> DEFINE R == Fenced \ {r}
        <3>1. pc[c] = "write" /\ Holds(c)
            <4>1. pc[c] = "write"
                BY <2>4 DEF Write
            <4> QED BY <1>1, <2>0, <2>4, <4>1 DEF HeldInv, Place
        <3>2. run[r].state \in {"notified", "reapproval_required"} /\ run'[r].amount = job[c].amount
            <4>1. CASE run' = run
                <5>1. run[r].state \in Committed
                    <6>1. PICK d \in Callers : run[r].state \in Committed \/ BegunAt(d, r, {"write"})'
                        BY <2>4, <4>1, FencedAndAllowedNext, <3>1
                    <6>2. CASE BegunAt(d, r, {"write"})'
                        <7>1. d # c
                            <8>1. job'[c].op = job[c].op
                                BY <2>4 DEF Write
                            <8> QED BY <2>4, <6>2, <8>1 DEF BegunAt, Begins
                        <7>2. BegunAt(d, r, {"write"})
                            BY <1>7, <6>2, <7>1, OthersStand DEF BegunAt, Begins
                        <7>3. r \in Allowed
                            BY <7>2, FencedAndAllowed
                        <7>4. run[r].amount \in Nat
                            <8>1. Amounts \cup {0} \subseteq Nat /\ run[r].amount \in Amounts \cup {0}
                                BY AmountsAssumption DEF BudgetTypeOK
                            <8> QED BY <8>1
                        <7> QED BY <2>4, <4>1, <7>3, <7>4
                    <6> QED BY <6>1, <6>2
                <5>2. r \in Allowed
                    BY <5>1, FencedAndAllowed
                <5>3. run[r].amount \in Nat
                    <6>1. Amounts \cup {0} \subseteq Nat /\ run[r].amount \in Amounts \cup {0}
                        BY AmountsAssumption DEF BudgetTypeOK
                    <6> QED BY <6>1
                <5> QED BY <2>4, <4>1, <5>2, <5>3
            <4>2. CASE run' # run
                BY <2>4, <4>2 DEF Write, BudgetTypeOK
            <4> QED BY <4>1, <4>2
        <3>3. Entitled(c)
            BY <2>4, <3>1, <3>2 DEF Entitled
        <3>4. spent + Total(R) + job[c].amount <= Cap
            BY <1>1, <2>4, <3>3 DEF RoomInv
        <3>5. \A q \in Allowed' \ {r} : q \in R /\ run'[q].amount <= run[q].amount
            <4>1. ASSUME NEW q \in Allowed' \ {r}
                  PROVE  q \in Allowed /\ run'[q].amount <= run[q].amount
                BY <1>7, <2>4, <4>1, AllowedBefore
            <4> QED BY <4>1, FencedAndAllowed
        <3>6. run'[r].amount <= job[c].amount
            BY <2>0, <3>2
        <3>7. R \in SUBSET Runs
            BY DEF Fenced
        <3> HIDE DEF R
        <3> QED BY <1>6, <2>0, <2>1, <3>4, <3>5, <3>6, <3>7
    <2>5. ASSUME NEW q \in Allowed', ~(q \in Allowed /\ run'[q].amount <= run[q].amount)
          PROVE  spent' + SumFunctionOnSet(Due', Allowed') <= Cap
        <3>1. q \in Runs
            BY DEF Allowed
        <3> QED BY <1>7, <2>3, <2>4, <2>5, <3>1, AllowedBefore
    <2> QED BY <2>2, <2>5
<1>8. ASSUME NEW x \in Runs, Complete(x)
      PROVE  spent' + SumFunctionOnSet(Due', Allowed') <= Cap
    <2>1. \A q \in Allowed' : q \in Allowed \ {x} /\ run'[q].amount <= run[q].amount
        BY <1>8, ReachBesides, FencedAndAllowedNext
    <2>2. x \in Allowed
        BY <1>8, FencedAndAllowed DEF Complete, Committed
    <2>3. run[x].amount + SumFunctionOnSet(Due', Allowed') <= Total(Allowed)
        <3>1. Allowed' \in SUBSET (Allowed \ {x})
            BY <2>1
        <3> QED BY <1>3, <2>1, <2>2, <3>1, Moves
    <2>4. spent' = spent + run[x].amount /\ run[x].amount \in Nat
        <3>1. Amounts \cup {0} \subseteq Nat /\ run[x].amount \in Amounts \cup {0}
            BY AmountsAssumption DEF BudgetTypeOK
        <3> QED BY <1>8, <3>1 DEF Complete
    <2> QED BY <1>2, <1>4, <2>3, <2>4, CapAssumption
<1>9. ASSUME NEW x \in Runs, Revalidate(x) \/ Close(x)
      PROVE  spent' + SumFunctionOnSet(Due', Allowed') <= Cap
    <2>1. \A q \in Allowed' : q \in Allowed /\ run'[q].amount <= run[q].amount
        BY <1>9, ReachBesides, FencedAndAllowedNext
    <2>2. spent' = spent
        BY <1>9 DEF Revalidate, Close
    <2> QED BY <1>5, <2>1, <2>2
<1>10. ASSUME Expire \/ UNCHANGED budgetVars
       PROVE  spent' + SumFunctionOnSet(Due', Allowed') <= Cap
    <2>1. UNCHANGED <<run, pc, job, spent>>
        BY <1>10 DEF Expire, budgetVars
    <2>2. Allowed' = Allowed
        BY <2>1 DEF Allowed, Begins, Committed
    <2>3. \A q \in Runs : run[q].amount \in Nat
        <3>1. Amounts \cup {0} \subseteq Nat
            BY AmountsAssumption
        <3> QED BY <3>1 DEF BudgetTypeOK
    <2> QED BY <1>3, <1>5, <2>1, <2>2, <2>3
<1> QED BY <1>7, <1>8, <1>9, <1>10 DEF BudgetNext

LEMMA BudgetInitInv == BudgetInit => BudgetInv
<1> SUFFICES ASSUME BudgetInit PROVE BudgetInv
    OBVIOUS
<1>1. \A c \in Callers : job[c] = NoJob /\ pc[c] = "idle"
    BY DEF BudgetInit
<1>2. NoJob.op = "none" /\ NoJob.run = NoRun
    BY DEF NoJob
<1>3. \A c \in Callers : Place(c) /\ ~Begins(c)
    BY <1>1, <1>2 DEF Place, Begins
<1>4. OwnRunInv
    BY <1>3 DEF OwnRunInv, OwnRun
<1>5. ReadInv /\ HeldInv
    BY <1>1, <1>2 DEF ReadInv, HeldInv
<1>6. RoomInv
    BY <1>1, <1>2 DEF RoomInv, Entitled
<1>7. Allowed = {}
    BY <1>3 DEF Allowed, Committed, BudgetInit
<1>8. FitInv
    BY <1>7, SumOfNone, CapAssumption DEF FitInv, Total, BudgetInit
<1> QED BY <1>3, <1>4, <1>5, <1>6, <1>8 DEF BudgetInv, PlaceInv

\* The inductive invariant: a request in its place, begin's run untouched, a
\* deciding check informed, the lease held over every decision that needs it,
\* room beside what was allowed, and what was allowed within the cap.
THEOREM BudgetInvariant == BudgetSpec => []BudgetInv
<1>1. BudgetTypeOK /\ BudgetTypeOK' /\ BudgetInv /\ [BudgetNext]_budgetVars => BudgetInv'
    <2> SUFFICES ASSUME BudgetTypeOK, BudgetTypeOK', BudgetInv, [BudgetNext]_budgetVars
                 PROVE  BudgetInv'
        OBVIOUS
    <2>1. PlaceInv /\ OwnRunInv /\ ReadInv /\ HeldInv /\ RoomInv /\ FitInv
        BY DEF BudgetInv
    <2>2. PlaceInv' /\ OwnRunInv'
        BY <2>1, PlaceStep, OwnRunStep
    <2>3. ReadInv' /\ HeldInv'
        BY <2>1, ReadStep, HeldStep
    <2>4. RoomInv' /\ FitInv'
        BY <2>1, <2>2, RoomStep, FitStep
    <2> QED BY <2>2, <2>3, <2>4 DEF BudgetInv
<1> QED BY <1>1, BudgetInitInv, BudgetTyping, PTL DEF BudgetSpec

\* The spend cap of workflow/service.py: however many requests begin, adjust and
\* reapprove runs of a user at once, what is spent and what may still be approved
\* stays within monthly_cap, unless one of the three windows was hit.
THEOREM CapHolds == BudgetSpec => []CapHoldsUnlessSlipped
<1>1. BudgetTypeOK /\ BudgetInv => CapHoldsUnlessSlipped
    <2> SUFFICES ASSUME BudgetTypeOK, BudgetInv, ~slipped
                 PROVE  spent + Sum({"intent_created", "notified", "approved"}, NoRun) <= Cap
        BY DEF CapHoldsUnlessSlipped
    <2> DEFINE C == {q \in Runs \ {NoRun} : run[q].state \in
                        {"intent_created", "notified", "approved"}}
    <2>1. PlaceInv /\ FitInv
        BY DEF BudgetInv
    <2>2. C \in SUBSET Allowed /\ Allowed \in SUBSET Runs
        BY DEF Allowed, Committed
    <2>3. SumFunctionOnSet(Due, C) <= SumFunctionOnSet(Due, Allowed)
        <3> HIDE DEF C
        <3> QED BY <2>2, DueType, RunsAreFinite, SumOfSubset
    <2>4. Total(C) \in Nat /\ Total(Allowed) \in Nat
        <3> HIDE DEF C
        <3> QED BY <2>2, TotalType
    <2>5. spent + Total(Allowed) <= Cap /\ spent \in Nat
        BY <2>1 DEF FitInv, BudgetTypeOK
    <2>6. Sum({"intent_created", "notified", "approved"}, NoRun) = Total(C)
        BY DEF Sum
    <2> HIDE DEF C
    <2> QED BY <2>3, <2>4, <2>5, <2>6, CapAssumption DEF Total
<1> QED BY <1>1, BudgetInvariant, BudgetTyping, PTL

-----------------------------------------------------------------------------
(* The agent: types                                                        *)

LEMMA AgentInitTyped == Init => TypeOK
<1> SUFFICES ASSUME Init PROVE TypeOK
    OBVIOUS
<1>1. NoIntent \in Intent /\ NoCredential \in Credential /\ Idle \in Thread
    BY DEF NoIntent, Intent, NoCredential, Credential, Idle, Thread
<1>2. NoAgentIntent \in AgentIntent
    BY DEF NoAgentIntent, AgentIntent
<1>3. 0 \in 0 .. MaxFaults
    BY MaxFaultsAssumption
<1>4. ClientTypeOK
    BY <1>1, <1>3 DEF Init, ClientInit, ClientTypeOK
<1> QED BY <1>2, <1>4 DEF Init, TypeOK

LEMMA ThreadTypes ==
    ASSUME ClientTypeOK, NEW t \in Threads
    PROVE  /\ thread[t] \in Thread
           /\ Leaves(t) => thread' \in [Threads -> Thread]
           /\ \A l \in {"idle", "poll", "publish", "answered", "pop", "report", "forget", "order"} :
                Goes(t, l) => thread' \in [Threads -> Thread]
           /\ \A o \in {"none", "approved", "rejected", "expired"}, r \in References \cup {NoReference} :
                Answers(t, o, r) => thread' \in [Threads -> Thread]
<1>1. Idle \in Thread
    BY DEF Idle, Thread
<1>2. thread \in [Threads -> Thread]
    BY DEF ClientTypeOK
<1>3. Leaves(t) => thread' \in [Threads -> Thread]
    BY <1>1, <1>2 DEF Leaves
<1>4. ASSUME NEW l \in {"idle", "poll", "publish", "answered", "pop", "report", "forget", "order"},
             Goes(t, l)
      PROVE  thread' \in [Threads -> Thread]
    BY <1>2, <1>4 DEF Goes, Thread
<1>5. ASSUME NEW o \in {"none", "approved", "rejected", "expired"},
             NEW r \in References \cup {NoReference}, Answers(t, o, r)
      PROVE  thread' \in [Threads -> Thread]
    <2> DEFINE n == [thread[t] EXCEPT !.pc = "answered", !.outcome = o, !.ref = r]
    <2>1. thread[t] \in Thread
        BY <1>2
    <2>2. n \in Thread
        BY <2>1 DEF Thread
    <2>3. thread' = [thread EXCEPT ![t] = n]
        BY <1>2, <1>5 DEF Answers
    <2> HIDE DEF n
    <2> QED BY <1>2, <2>2, <2>3
<1> QED BY <1>2, <1>3, <1>4, <1>5

LEMMA FaultType == ASSUME ClientTypeOK, Fault \/ UNCHANGED faults PROVE faults' \in 0 .. MaxFaults
BY MaxFaultsAssumption DEF ClientTypeOK, Fault

LEMMA PollTyped == ASSUME ClientTypeOK, NEW t \in Threads, Poll(t) \/ Publish(t) PROVE ClientTypeOK'
<1> USE DEF ClientTypeOK
<1>1. ASSUME NEW o \in {"none", "approved", "rejected", "expired"},
             NEW r \in References \cup {NoReference}, NEW s
      PROVE  [intents EXCEPT ![s].outcome = o, ![s].ref = r] \in [Sessions -> Intent]
    <2> DEFINE n == [intents[s] EXCEPT !.outcome = o, !.ref = r]
    <2>1. s \in Sessions => n \in Intent
        BY DEF Intent
    <2>2. [intents EXCEPT ![s].outcome = o, ![s].ref = r] = [intents EXCEPT ![s] = n]
        OBVIOUS
    <2> HIDE DEF n
    <2> QED BY <2>1, <2>2
<1>2. thread[t] \in Thread
    BY ThreadTypes
<1>3. ASSUME Publish(t) PROVE ClientTypeOK'
    <2>1. thread[t].ref \in References \cup {NoReference}
        BY <1>2 DEF Thread
    <2>2. thread' \in [Threads -> Thread]
        BY <1>3, <2>1, ThreadTypes DEF Publish
    <2>3. intents' \in [Sessions -> Intent]
        <3>1. intents' = [intents EXCEPT ![thread[t].session].outcome = "approved",
                                         ![thread[t].session].ref = thread[t].ref]
            BY <1>3 DEF Publish
        <3> DEFINE r == thread[t].ref
        <3>2. r \in References \cup {NoReference} /\ thread[t].ref = r
            BY <2>1
        <3> HIDE DEF r
        <3> QED BY <1>1, <3>1, <3>2
    <2> QED BY <1>3, <2>2, <2>3 DEF Publish
<1>4. ASSUME Poll(t) PROVE ClientTypeOK'
    <2>1. UNCHANGED <<prava, leases, shared>>
        BY <1>4 DEF Poll
    <2>2. ASSUME PollSettled(t) \/ PollLapsed(t) PROVE ClientTypeOK'
        <3>1. PICK o \in {"rejected", "expired"} :
                 /\ intents' = [intents EXCEPT ![thread[t].session].outcome = o,
                                               ![thread[t].session].ref = NoReference]
                 /\ Answers(t, o, NoReference)
            BY <2>2 DEF PollSettled, PollLapsed
        <3>2. thread' \in [Threads -> Thread]
            BY <3>1, ThreadTypes
        <3>3. intents' \in [Sessions -> Intent]
            BY <1>1, <3>1
        <3> QED BY <2>1, <2>2, <3>2, <3>3 DEF PollSettled, PollLapsed
    <2>3. ASSUME PollApproved(t) PROVE ClientTypeOK'
        <3>1. PICK c \in References :
                 /\ credentials' = [credentials EXCEPT ![c] =
                       [NoCredential EXCEPT !.session = thread[t].session, !.card = TRUE]]
                 /\ thread' = [thread EXCEPT ![t].pc = "publish", ![t].ref = c]
            BY <2>3 DEF PollApproved
        <3>2. [NoCredential EXCEPT !.session = thread[t].session, !.card = TRUE] \in Credential
            BY <1>2 DEF NoCredential, Credential, Thread
        <3>3. thread' \in [Threads -> Thread]
            <4> DEFINE n == [thread[t] EXCEPT !.pc = "publish", !.ref = c]
            <4>1. n \in Thread
                BY <1>2 DEF Thread
            <4>2. thread' = [thread EXCEPT ![t] = n]
                BY <3>1
            <4> HIDE DEF n
            <4> QED BY <4>1, <4>2
        <3> QED BY <2>1, <2>3, <3>1, <3>2, <3>3 DEF PollApproved
    <2>4. ASSUME Retries(t) \/ Leaves(t), UNCHANGED <<intents, credentials, faults>>
          PROVE  ClientTypeOK'
        <3>1. thread' \in [Threads -> Thread]
            BY <2>4, ThreadTypes DEF Retries
        <3> QED BY <2>1, <2>4, <3>1
    <2> QED BY <1>4, <2>2, <2>3, <2>4 DEF Poll
<1> QED BY <1>3, <1>4

LEMMA CardTyped == ASSUME ClientTypeOK, CardNext PROVE ClientTypeOK'
<1> USE DEF ClientTypeOK
<1>1. \A c : Dropped(c) \in [References -> Credential]
    BY DEF Dropped, NoCredential, Credential
<1>2. ASSUME NEW t \in Threads, NEW c \in References, Consume(t, c) PROVE ClientTypeOK'
    <2>1. thread' \in [Threads -> Thread]
        <3> DEFINE n == [thread[t] EXCEPT !.pc = "pop", !.ref = c]
        <3>0. n \in Thread /\ [thread EXCEPT ![t].pc = "pop", ![t].ref = c] = [thread EXCEPT ![t] = n]
            BY ThreadTypes DEF Thread
        <3> HIDE DEF n
        <3>1. [thread EXCEPT ![t].pc = "pop", ![t].ref = c] \in [Threads -> Thread]
            BY <3>0
        <3> QED BY <1>2, <3>1 DEF Consume
    <2> QED BY <1>1, <1>2, <2>1 DEF Consume
<1>3. ASSUME NEW t \in Threads, Pop(t) PROVE ClientTypeOK'
    <2>1. thread' \in [Threads -> Thread]
        BY <1>3, ThreadTypes DEF Pop
    <2>2. credentials' \in [References -> Credential]
        <3>1. \A c : [credentials EXCEPT ![c].card = FALSE, ![c].consumed = TRUE]
                     \in [References -> Credential]
            BY DEF Credential
        <3> QED BY <1>3, <3>1 DEF Pop
    <2>3. leases' \in [References -> Nat]
        BY <1>3 DEF Pop
    <2> QED BY <1>3, <2>1, <2>2, <2>3 DEF Pop
<1>4. ASSUME NEW t \in Threads, Finalize(t) PROVE ClientTypeOK'
    <2>1. thread' \in [Threads -> Thread]
        BY <1>4, ThreadTypes DEF Finalize
    <2>2. credentials' \in [References -> Credential]
        BY <1>1, <1>4 DEF Finalize
    <2>3. prava' \in [Sessions -> {"none", "pending", "awaiting_result", "failed", "expired",
                                  "completed"}]
        BY <1>4 DEF Finalize
    <2>4. faults' \in 0 .. MaxFaults
        BY <1>4, FaultType DEF Finalize
    <2> QED BY <1>4, <2>1, <2>2, <2>3, <2>4 DEF Finalize
<1>5. ASSUME NEW t \in Threads, Retire(t) PROVE ClientTypeOK'
    <2>1. thread' \in [Threads -> Thread]
        BY <1>5, ThreadTypes DEF Retire
    <2>2. credentials' \in [References -> Credential]
        BY <1>5 DEF Retire, NoCredential, Credential
    <2> QED BY <1>5, <2>1, <2>2 DEF Retire
<1>6. ASSUME NEW c \in References, Age(c) PROVE ClientTypeOK'
    <2>1. credentials' \in [References -> Credential]
        BY <1>6 DEF Age, Credential
    <2> QED BY <1>6, <2>1 DEF Age
<1>7. ASSUME Purge PROVE ClientTypeOK'
    <2>1. NoCredential \in Credential
        BY DEF NoCredential, Credential
    <2>2. credentials' \in [References -> Credential]
        BY <1>7, <2>1 DEF Purge
    <2> QED BY <1>7, <2>2 DEF Purge
<1> QED BY <1>2, <1>3, <1>4, <1>5, <1>6, <1>7 DEF CardNext

LEMMA SessionTyped == ASSUME ClientTypeOK, SessionNext PROVE ClientTypeOK'
<1> USE DEF ClientTypeOK
<1>1. ASSUME NEW s \in Sessions, RegisterIntentContext(s) PROVE ClientTypeOK'
    <2>1. intents' \in [Sessions -> Intent]
        BY <1>1 DEF RegisterIntentContext, NoIntent, Intent
    <2> QED BY <1>1, <2>1 DEF RegisterIntentContext
<1>2. ASSUME NEW s \in Sessions, NEW state \in {"awaiting_result", "failed", "expired"},
             Decide(s, state)
      PROVE  ClientTypeOK'
    <2>1. prava' \in [Sessions -> {"none", "pending", "awaiting_result", "failed", "expired",
                                  "completed"}]
        BY <1>2 DEF Decide
    <2> QED BY <1>2, <2>1 DEF Decide
<1> QED BY <1>1, <1>2 DEF SessionNext

LEMMA AgentStepTyped == TypeOK /\ [Next]_vars => TypeOK'
<1> SUFFICES ASSUME TypeOK, [Next]_vars PROVE TypeOK'
    OBVIOUS
<1> USE DEF TypeOK
<1>1. ASSUME NEW s \in Sessions, NEW i \in Items, RequestIntent(s, i) PROVE TypeOK'
    <2>1. intent' \in [Sessions -> AgentIntent]
        BY <1>1 DEF RequestIntent, AgentIntent
    <2>2. crowded' \in BOOLEAN
        BY <1>1 DEF RequestIntent
    <2>3. ClientTypeOK'
        BY <1>1 DEF RequestIntent, ClientTypeOK, clientVars
    <2> QED BY <1>1, <2>1, <2>2, <2>3 DEF RequestIntent
<1>2. ASSUME NEW s \in Sessions, IntentCreated(s) PROVE TypeOK'
    <2>1. NoAgentIntent \in AgentIntent
        BY DEF NoAgentIntent, AgentIntent
    <2>2. [intent[s] EXCEPT !.status = "pending_approval"] \in AgentIntent
        BY DEF AgentIntent
    <2>3. intent' \in [Sessions -> AgentIntent]
        BY <1>2, <2>1, <2>2 DEF IntentCreated
    <2>4. ClientTypeOK'
        <3>1. intents' \in [Sessions -> Intent]
            <4>1. [NoIntent EXCEPT !.known = TRUE, !.dated = TRUE] \in Intent
                BY DEF NoIntent, Intent
            <4> QED BY <1>2, <4>1 DEF IntentCreated, CreateIntent, ClientTypeOK
        <3>2. prava' \in [Sessions -> {"none", "pending", "awaiting_result", "failed", "expired",
                                      "completed"}]
            BY <1>2 DEF IntentCreated, CreateIntent, ClientTypeOK
        <3>3. faults' \in 0 .. MaxFaults
            BY <1>2, FaultType DEF IntentCreated, CreateIntent
        <3> QED BY <1>2, <3>1, <3>2, <3>3 DEF IntentCreated, CreateIntent, ClientTypeOK
    <2> QED BY <1>2, <2>3, <2>4 DEF IntentCreated
<1>3. ASSUME NEW t \in Threads, NEW s \in Sessions, AwaitPasskey(t, s) PROVE TypeOK'
    <2>1. [Idle EXCEPT !.session = s, !.pc = IF Known(s) THEN "answered" ELSE "poll",
                       !.outcome = intents[s].outcome, !.ref = intents[s].ref] \in Thread
        <3>1. intents[s] \in Intent
            BY DEF ClientTypeOK
        <3> QED BY <3>1 DEF Idle, Thread, Intent
    <2>2. thread' \in [Threads -> Thread]
        BY <1>3, <2>1 DEF AwaitPasskey, Await, ClientTypeOK
    <2>3. shared' \subseteq Sessions
        BY <1>3 DEF AwaitPasskey, Await, ClientTypeOK
    <2> QED BY <1>3, <2>2, <2>3 DEF AwaitPasskey, Await, ClientTypeOK, agentVars
<1>4. ASSUME NEW t \in Threads, NEW s \in Sessions, CompleteCheckout(t, s) PROVE TypeOK'
    <2>1. thread' \in [Threads -> Thread]
        <3> DEFINE n == [thread[t] EXCEPT !.pc = "order", !.session = s]
        <3>0. /\ n \in Thread
              /\ [thread EXCEPT ![t].pc = "order", ![t].session = s] = [thread EXCEPT ![t] = n]
            BY ThreadTypes DEF Thread
        <3> HIDE DEF n
        <3>1. [thread EXCEPT ![t].pc = "order", ![t].session = s] \in [Threads -> Thread]
            BY <3>0 DEF ClientTypeOK
        <3> QED BY <1>4, <3>1 DEF CompleteCheckout, ClientTypeOK
    <2>2. booked' \in [Sessions -> Nat]
        BY <1>4 DEF CompleteCheckout, Books
    <2> QED BY <1>4, <2>1, <2>2 DEF CompleteCheckout, ClientTypeOK
<1>5. ASSUME NEW t \in Threads, Mandated(t) PROVE TypeOK'
    <2>1. thread[t] \in Thread /\ thread' \in [Threads -> Thread]
        BY <1>5, ThreadTypes DEF Mandated
    <2>2. intent' \in [Sessions -> AgentIntent]
        <3> DEFINE q == thread[t].session
                   n == [intent[q] EXCEPT !.status = thread[t].outcome,
                            !.mandate = IF thread[t].outcome = "approved" THEN thread[t].ref ELSE @]
        <3>1. intent' = [intent EXCEPT ![q] = n]
            BY <1>5 DEF Mandated
        <3>2. CASE q \in Sessions
            <4>1. intent[q] \in AgentIntent
                BY <3>2
            <4>2. n \in AgentIntent
                BY <2>1, <4>1 DEF AgentIntent, Thread
            <4> HIDE DEF n
            <4> QED BY <3>1, <3>2, <4>2
        <3>3. CASE q \notin Sessions
            <4> HIDE DEF n, q
            <4> QED BY <3>1, <3>3
        <3> QED BY <3>2, <3>3
    <2> QED BY <1>5, <2>1, <2>2 DEF Mandated, ClientTypeOK
<1>6. ASSUME NEW t \in Threads, PlaceOrder(t) PROVE TypeOK'
    <2>1. thread' \in [Threads -> Thread]
        BY <1>6, ThreadTypes DEF PlaceOrder
    <2>2. booked' \in [Sessions -> Nat] /\ orders' \in [Sessions -> Nat]
        BY <1>6 DEF PlaceOrder, Books, Stored
    <2> QED BY <1>6, <2>1, <2>2 DEF PlaceOrder, ClientTypeOK
<1>7. ASSUME AgentRestart PROVE TypeOK'
    <2>1. NoIntent \in Intent /\ NoCredential \in Credential /\ Idle \in Thread
        BY DEF NoIntent, Intent, NoCredential, Credential, Idle, Thread
    <2>2. NoAgentIntent \in AgentIntent
        BY DEF NoAgentIntent, AgentIntent
    <2>3. faults' \in 0 .. MaxFaults
        BY <1>7, FaultType DEF AgentRestart, Restart
    <2>4. ClientTypeOK'
        BY <1>7, <2>1, <2>3 DEF AgentRestart, Restart, ClientTypeOK
    <2>5. crowded' \in BOOLEAN
        BY <1>7 DEF AgentRestart
    <2> QED BY <1>7, <2>2, <2>4, <2>5 DEF AgentRestart
<1>8. ASSUME PollNext \/ CardNext \/ SessionNext, UNCHANGED agentVars PROVE TypeOK'
    <2>1. ClientTypeOK'
        BY <1>8, PollTyped, CardTyped, SessionTyped DEF PollNext
    <2> QED BY <1>8, <2>1 DEF agentVars
<1>9. CASE UNCHANGED vars
    BY <1>9 DEF vars, clientVars, agentVars, ClientTypeOK
<1> QED BY <1>1, <1>2, <1>3, <1>4, <1>5, <1>6, <1>7, <1>8, <1>9 DEF Next

\* Whatever the agent and its threads do, their state has its types.
THEOREM AgentTyping == Spec => []TypeOK
<1> QED BY AgentInitTyped, AgentStepTyped, PTL DEF Spec

-----------------------------------------------------------------------------
(* The agent: its steps, by what they do to an outcome                     *)

\* One poll: an outcome that ends it, a card, or neither.
Settles(t) == Poll(t) /\ (PollSettled(t) \/ PollLapsed(t))
Finds(t) == Poll(t) /\ PollApproved(t)
Lingers(t) == Poll(t) /\ (Leaves(t) \/ UNCHANGED thread) /\ UNCHANGED <<intents, credentials>>

\* A step that neither starts a poll, nor finds a card, nor changes an outcome.
Calm ==
    \/ \E s \in Sessions : (\E i \in Items : RequestIntent(s, i)) \/ IntentCreated(s)
    \/ \E t \in Threads :
         (\E s \in Sessions : CompleteCheckout(t, s)) \/ Mandated(t) \/ PlaceOrder(t) \/ Lingers(t)
    \/ CardNext \/ SessionNext
    \/ UNCHANGED vars

LEMMA StepIs ==
    ASSUME [Next]_vars
    PROVE  \/ Calm
           \/ \E t \in Threads : \E s \in Sessions : AwaitPasskey(t, s)
           \/ \E t \in Threads : Settles(t) \/ Publish(t)
           \/ \E t \in Threads : Finds(t)
           \/ AgentRestart
<1>1. \A t \in Threads : Poll(t) => Settles(t) \/ Finds(t) \/ Lingers(t)
    BY DEF Poll, Settles, Finds, Lingers, Retries
<1> QED BY <1>1 DEF Next, Calm, PollNext

\* A decision of the user's stands.
LEMMA DecidedStays ==
    ASSUME TypeOK, [Next]_vars, NEW s \in Sessions
    PROVE  (Decided(s) => Decided(s)') /\ (prava[s] # "none" => prava'[s] # "none")
<1> USE DEF TypeOK, ClientTypeOK, Decided
<1>1. CASE UNCHANGED prava
    BY <1>1
<1>2. ASSUME NEW r \in Sessions, IntentCreated(r)
      PROVE  (Decided(s) => Decided(s)') /\ (prava[s] # "none" => prava'[s] # "none")
    BY <1>2 DEF IntentCreated, CreateIntent
<1>3. ASSUME NEW r \in Sessions, NEW st \in {"awaiting_result", "failed", "expired"}, Decide(r, st)
      PROVE  (Decided(s) => Decided(s)') /\ (prava[s] # "none" => prava'[s] # "none")
    BY <1>3 DEF Decide
<1>4. ASSUME NEW t \in Threads, Finalize(t)
      PROVE  (Decided(s) => Decided(s)') /\ (prava[s] # "none" => prava'[s] # "none")
    BY <1>4 DEF Finalize
<1>5. UNCHANGED prava \/ (\E r \in Sessions : IntentCreated(r))
      \/ (\E r \in Sessions, st \in {"awaiting_result", "failed", "expired"} : Decide(r, st))
      \/ (\E t \in Threads : Finalize(t))
    BY DEF Next, vars, clientVars, RequestIntent, AwaitPasskey, Await, CompleteCheckout, Mandated,
       PlaceOrder, AgentRestart, Restart, PollNext, Poll, Publish, CardNext, Consume, Pop, Retire,
       Age, Purge, SessionNext, RegisterIntentContext
<1> QED BY <1>1, <1>2, <1>3, <1>4, <1>5

LEMMA CalmStep ==
    ASSUME TypeOK, KnownInv, Calm
    PROVE  /\ shared' = shared
           /\ \A s \in Sessions :
                /\ intents'[s].outcome = intents[s].outcome /\ intents'[s].ref = intents[s].ref
                /\ intents[s].known => intents'[s].known
                /\ ~intents'[s].known => intents'[s] = NoIntent
                /\ intents'[s].known => intents[s].known \/ prava'[s] # "none"
                /\ \A c \in CardsOf(s)' : c \in CardsOf(s)
           /\ \A u \in Threads :
                /\ thread'[u].pc \in {"poll", "publish", "answered"} => thread'[u] = thread[u]
                /\ thread[u].pc = "publish" => thread'[u] = thread[u]
                /\ thread'[u].pc = "order" /\ thread'[u] # thread[u] =>
                     /\ thread'[u].session \in Sessions /\ UNCHANGED intent
                     /\ intent[thread'[u].session].mandate # NoReference
<1> USE DEF TypeOK, ClientTypeOK
<1> DEFINE Kept(s) ==
        /\ intents'[s].outcome = intents[s].outcome /\ intents'[s].ref = intents[s].ref
        /\ intents[s].known => intents'[s].known
        /\ ~intents'[s].known => intents'[s] = NoIntent
        /\ intents'[s].known => intents[s].known \/ prava'[s] # "none"
    Fewer(s) == \A c \in CardsOf(s)' : c \in CardsOf(s)
    Still(u) ==
        /\ thread'[u].pc \in {"poll", "publish", "answered"} => thread'[u] = thread[u]
        /\ thread[u].pc = "publish" => thread'[u] = thread[u]
        /\ thread'[u].pc = "order" /\ thread'[u] # thread[u] =>
             /\ thread'[u].session \in Sessions /\ UNCHANGED intent
             /\ intent[thread'[u].session].mandate # NoReference
<1>0. \A s \in Sessions : intents[s] \in Intent
    OBVIOUS
<1>1. UNCHANGED intents => \A s \in Sessions : Kept(s)
    BY DEF KnownInv
<1>2. UNCHANGED credentials => \A s \in Sessions : Fewer(s)
    BY DEF CardsOf
<1>3. UNCHANGED thread => \A u \in Threads : Still(u)
    OBVIOUS
<1>4. ASSUME NEW s \in Sessions, NEW x \in Intent, x.known, x.outcome = "none",
             x.ref = NoReference, intents' = [intents EXCEPT ![s] = x],
             ~intents[s].known, prava'[s] # "none"
      PROVE  \A r \in Sessions : Kept(r)
    <2>1. Kept(s)
        <3>1. intents'[s] = x /\ intents[s] = NoIntent
            BY <1>4 DEF KnownInv
        <3>2. NoIntent.outcome = "none" /\ NoIntent.ref = NoReference
            BY DEF NoIntent
        <3> QED BY <1>4, <3>1, <3>2
    <2>2. ASSUME NEW r \in Sessions, r # s PROVE Kept(r)
        <3>1. intents'[r] = intents[r]
            BY <1>4, <2>2
        <3> QED BY <3>1 DEF KnownInv
    <2> HIDE DEF Kept
    <2> QED BY <2>1, <2>2
<1>5. ASSUME NEW t \in Threads, thread[t].pc # "publish", \A u \in Threads : u # t => thread'[u] = thread[u],
             thread'[t].pc \notin {"poll", "publish", "answered", "order"}
      PROVE  \A u \in Threads : Still(u)
    BY <1>5
<1>6. \A t \in Threads : Leaves(t) => (\A u \in Threads : u # t => thread'[u] = thread[u])
                                      /\ thread'[t].pc = "idle"
    BY DEF Leaves, Idle
<1>7. \A t \in Threads : \A l : Goes(t, l) => (\A u \in Threads : u # t => thread'[u] = thread[u])
                                              /\ thread'[t].pc = l
    BY DEF Goes, Thread
<1>8. ASSUME NEW s \in Sessions, (\E i \in Items : RequestIntent(s, i)) \/ IntentCreated(s)
      PROVE  shared' = shared /\ (\A r \in Sessions : Kept(r) /\ Fewer(r)) /\ \A u \in Threads : Still(u)
    <2>1. CASE \E i \in Items : RequestIntent(s, i)
        BY <1>1, <1>2, <1>3, <2>1 DEF RequestIntent, clientVars
    <2>2. CASE IntentCreated(s)
        <3>1. UNCHANGED <<credentials, thread, shared>>
            BY <2>2 DEF IntentCreated, CreateIntent
        <3>2. CASE UNCHANGED intents
            BY <1>1, <1>2, <1>3, <3>1, <3>2
        <3>3. CASE intents' # intents
            <4> DEFINE x == [NoIntent EXCEPT !.known = TRUE, !.dated = TRUE]
            <4>1. x \in Intent /\ x.known /\ x.outcome = "none" /\ x.ref = NoReference
                BY DEF NoIntent, Intent
            <4>2. /\ intents' = [intents EXCEPT ![s] = x]
                  /\ prava[s] = "none" /\ prava'[s] # "none"
                BY <2>2, <3>3 DEF IntentCreated, CreateIntent
            <4>3. ~intents[s].known
                BY <4>2 DEF KnownInv
            <4> HIDE DEF x, Kept, Fewer, Still
            <4> QED BY <1>2, <1>3, <1>4, <3>1, <4>1, <4>2, <4>3
        <3> QED BY <3>2, <3>3
    <2> QED BY <1>8, <2>1, <2>2
<1>9. ASSUME NEW t \in Threads,
             (\E s \in Sessions : CompleteCheckout(t, s)) \/ Mandated(t) \/ PlaceOrder(t) \/ Lingers(t)
      PROVE  shared' = shared /\ (\A r \in Sessions : Kept(r) /\ Fewer(r)) /\ \A u \in Threads : Still(u)
    <2>1. UNCHANGED <<intents, credentials, shared>>
        BY <1>9 DEF CompleteCheckout, Mandated, PlaceOrder, Lingers, Poll
    <2>2. \A u \in Threads : Still(u)
        <3>1. CASE UNCHANGED thread
            BY <1>3, <3>1
        <3>2. CASE thread[t].pc # "publish" /\ Leaves(t)
            BY <1>5, <1>6, <3>2
        <3>3. ASSUME NEW s \in Sessions, CompleteCheckout(t, s), thread' # thread
              PROVE  \A u \in Threads : Still(u)
            <4>1. /\ thread[t].pc = "idle"
                  /\ thread' = [thread EXCEPT ![t].pc = "order", ![t].session = s]
                BY <3>3 DEF CompleteCheckout, Idle
            <4>2. thread'[t].pc = "order" /\ thread'[t].session = s
                BY <4>1 DEF Thread
            <4>3. \A u \in Threads : u # t => thread'[u] = thread[u]
                BY <4>1
            <4>4. UNCHANGED intent /\ intent[s].mandate # NoReference
                BY <3>3 DEF CompleteCheckout
            <4> QED BY <4>1, <4>2, <4>3, <4>4
        <3> QED BY <1>9, <3>1, <3>2, <3>3 DEF Mandated, PlaceOrder, Lingers, Poll
    <2> QED BY <1>1, <1>2, <2>1, <2>2
<1>10. ASSUME CardNext
       PROVE  shared' = shared /\ (\A r \in Sessions : Kept(r) /\ Fewer(r)) /\ \A u \in Threads : Still(u)
    <2>1. UNCHANGED <<intents, shared>>
        BY <1>10 DEF CardNext, Consume, Pop, Finalize, Retire, Age, Purge
    <2>2. \A c \in References : \/ credentials'[c] = credentials[c]
                                \/ ~credentials'[c].card
                                \/ /\ credentials'[c].session = credentials[c].session
                                   /\ credentials'[c].card = credentials[c].card
        <3>1. ~NoCredential.card
            BY DEF NoCredential
        <3>2. ASSUME NEW t \in Threads, NEW d \in References, Consume(t, d), NEW c \in References
              PROVE  credentials'[c] = credentials[c] \/ ~credentials'[c].card
            BY <3>1, <3>2 DEF Consume, Dropped
        <3>3. ASSUME NEW t \in Threads, Pop(t), NEW c \in References
              PROVE  credentials'[c] = credentials[c] \/ ~credentials'[c].card
            BY <3>3 DEF Pop, Credential
        <3>4. ASSUME NEW t \in Threads, Finalize(t) \/ Retire(t), NEW c \in References
              PROVE  credentials'[c] = credentials[c] \/ ~credentials'[c].card
            BY <3>1, <3>4 DEF Finalize, Retire, Dropped
        <3>5. ASSUME NEW d \in References, Age(d), NEW c \in References
              PROVE  /\ credentials'[c].session = credentials[c].session
                     /\ credentials'[c].card = credentials[c].card
            BY <3>5 DEF Age, Credential
        <3>6. ASSUME Purge, NEW c \in References
              PROVE  credentials'[c] = credentials[c] \/ ~credentials'[c].card
            BY <3>1, <3>6 DEF Purge
        <3> QED BY <1>10, <3>2, <3>3, <3>4, <3>5, <3>6 DEF CardNext
    <2>3. \A r \in Sessions : Fewer(r)
        BY <2>2 DEF CardsOf
    <2>4. \A u \in Threads : Still(u)
        <3>1. CASE UNCHANGED thread
            BY <1>3, <3>1
        <3>2. ASSUME NEW t \in Threads, NEW c \in References, Consume(t, c), thread' # thread
              PROVE  \A u \in Threads : Still(u)
            <4>1. /\ thread[t].pc = "idle"
                  /\ thread' = [thread EXCEPT ![t].pc = "pop", ![t].ref = c]
                BY <3>2 DEF Consume, Idle
            <4>2. thread'[t].pc = "pop"
                BY <4>1 DEF Thread
            <4> QED BY <1>5, <4>1, <4>2
        <3>3. ASSUME NEW t \in Threads, Pop(t) \/ Finalize(t) \/ Retire(t)
              PROVE  \A u \in Threads : Still(u)
            <4>1. thread[t].pc # "publish"
                BY <3>3 DEF Pop, Finalize, Retire
            <4>2. Leaves(t) \/ Goes(t, "report") \/ Goes(t, "forget")
                BY <3>3 DEF Pop, Finalize, Retire
            <4> HIDE DEF Still
            <4> QED BY <1>5, <1>6, <1>7, <4>1, <4>2
        <3> QED BY <1>10, <3>1, <3>2, <3>3 DEF CardNext, Age, Purge
    <2> QED BY <1>1, <2>1, <2>3, <2>4
<1>11. ASSUME SessionNext
       PROVE  shared' = shared /\ (\A r \in Sessions : Kept(r) /\ Fewer(r)) /\ \A u \in Threads : Still(u)
    <2>1. UNCHANGED <<credentials, thread, shared>>
        BY <1>11 DEF SessionNext, RegisterIntentContext, Decide
    <2>2. CASE UNCHANGED intents
        BY <1>1, <1>2, <1>3, <2>1, <2>2
    <2>3. ASSUME NEW s \in Sessions, RegisterIntentContext(s)
          PROVE  \A r \in Sessions : Kept(r)
        <3> DEFINE x == [NoIntent EXCEPT !.known = TRUE]
        <3>1. x \in Intent /\ x.known /\ x.outcome = "none" /\ x.ref = NoReference
            BY DEF NoIntent, Intent
        <3>2. intents' = [intents EXCEPT ![s] = x] /\ ~intents[s].known /\ prava'[s] # "none"
            BY <2>3 DEF RegisterIntentContext
        <3> HIDE DEF x, Kept
        <3> QED BY <1>4, <3>1, <3>2
    <2> QED BY <1>2, <1>3, <1>11, <2>1, <2>2, <2>3 DEF SessionNext, Decide
<1>12. CASE UNCHANGED vars
    BY <1>1, <1>2, <1>3, <1>12 DEF vars, clientVars
<1> DEFINE All == /\ shared' = shared
                  /\ \A r \in Sessions : Kept(r) /\ Fewer(r)
                  /\ \A u \in Threads : Still(u)
<1>13. /\ \A s \in Sessions : (\E i \in Items : RequestIntent(s, i)) \/ IntentCreated(s) => All
       /\ \A t \in Threads : \/ \E s \in Sessions : CompleteCheckout(t, s)
                             \/ Mandated(t) \/ PlaceOrder(t) \/ Lingers(t)
                             => All
       /\ CardNext \/ SessionNext \/ UNCHANGED vars => All
    BY <1>8, <1>9, <1>10, <1>11, <1>12
<1> HIDE DEF All
<1>14. All
    BY <1>13 DEF Calm
<1> QED BY <1>14 DEF All

\* A poll that ends with an outcome, or a card that is published.
LEMMA AnswerStep ==
    ASSUME TypeOK, ThreadInv, NEW t \in Threads, Settles(t) \/ Publish(t)
    PROVE  LET s == thread[t].session IN
           /\ s \in Sessions /\ Polling(t, s) /\ UNCHANGED <<prava, credentials, shared>>
           /\ \A r \in Sessions : r # s => intents'[r] = intents[r]
           /\ intents'[s].outcome # "none" /\ intents'[s].known
           /\ intents'[s].outcome = "approved" => Decided(s)
           /\ \A u \in Threads : u # t => thread'[u] = thread[u]
           /\ thread'[t].pc = "answered" /\ thread'[t].session = s
           /\ thread'[t].outcome = intents'[s].outcome
<1> DEFINE s == thread[t].session
<1> USE DEF TypeOK, ClientTypeOK
<1>1. s \in Sessions /\ thread[t].pc \in {"poll", "publish"} /\ intents[s].known
      /\ (Publish(t) => Decided(s)) /\ UNCHANGED <<prava, credentials, shared>>
    BY DEF Settles, Poll, PollSettled, PollLapsed, Publish, ThreadInv
<1>2. PICK o \in {"approved", "rejected", "expired"}, r \in References \cup {NoReference} :
         /\ intents' = [intents EXCEPT ![s].outcome = o, ![s].ref = r]
         /\ Answers(t, o, r)
         /\ o = "approved" => Decided(s)
    <2>1. CASE Publish(t)
        <3>1. thread[t].ref \in References \cup {NoReference}
            BY DEF Thread
        <3>2. /\ intents' = [intents EXCEPT ![s].outcome = "approved", ![s].ref = thread[t].ref]
              /\ Answers(t, "approved", thread[t].ref)
            BY <2>1 DEF Publish
        <3> QED BY <1>1, <2>1, <3>1, <3>2
    <2>2. CASE Settles(t)
        <3>1. \E o \in {"rejected", "expired"} :
                 /\ intents' = [intents EXCEPT ![s].outcome = o, ![s].ref = NoReference]
                 /\ Answers(t, o, NoReference)
            BY <2>2 DEF Settles, PollSettled, PollLapsed
        <3> QED BY <3>1
    <2> QED BY <2>1, <2>2
<1>3. intents'[s].outcome = o /\ intents'[s].known
    <2>1. intents[s] \in Intent
        BY <1>1
    <2> QED BY <1>1, <1>2, <2>1 DEF Intent
<1>4. \A q \in Sessions : q # s => intents'[q] = intents[q]
    BY <1>1, <1>2
<1>5. /\ \A u \in Threads : u # t => thread'[u] = thread[u]
      /\ thread'[t].pc = "answered" /\ thread'[t].session = s /\ thread'[t].outcome = o
    <2> DEFINE n == [thread[t] EXCEPT !.pc = "answered", !.outcome = o, !.ref = r]
    <2>1. thread' = [thread EXCEPT ![t] = n]
        BY <1>2 DEF Answers
    <2>2. n.pc = "answered" /\ n.session = thread[t].session /\ n.outcome = o
        <3>1. thread[t] \in Thread
            OBVIOUS
        <3> QED BY <3>1 DEF Thread
    <2> HIDE DEF n
    <2> QED BY <2>1, <2>2
<1> QED BY <1>1, <1>2, <1>3, <1>4, <1>5 DEF Polling

\* A poll that finds a card, under a reference nobody has.
LEMMA FindStep ==
    ASSUME TypeOK, ThreadInv, NEW t \in Threads, Finds(t), NEW s, s = thread[t].session
    PROVE  /\ s \in Sessions /\ Polling(t, s) /\ thread[t].pc = "poll" /\ Decided(s)
           /\ UNCHANGED <<prava, intents, shared>>
           /\ \A u \in Threads : u # t => thread'[u] = thread[u]
           /\ thread'[t].pc = "publish" /\ thread'[t].session = s
           /\ \E c \in References : /\ CardsOf(s)' = CardsOf(s) \cup {c}
                                    /\ \A r \in Sessions : r # s => CardsOf(r)' \subseteq CardsOf(r)
<1> USE DEF TypeOK, ClientTypeOK
<1>1. /\ s \in Sessions /\ thread[t].pc = "poll" /\ prava[s] = "awaiting_result"
      /\ UNCHANGED <<prava, intents, shared>>
    BY DEF Finds, Poll, PollApproved, ThreadInv
<1>2. PICK c \in References :
         /\ credentials[c] = NoCredential
         /\ credentials' = [credentials EXCEPT ![c] =
                               [NoCredential EXCEPT !.session = s, !.card = TRUE]]
         /\ thread' = [thread EXCEPT ![t].pc = "publish", ![t].ref = c]
    BY DEF Finds, PollApproved
<1>3. /\ \A u \in Threads : u # t => thread'[u] = thread[u]
      /\ thread'[t].pc = "publish" /\ thread'[t].session = s
    <2> DEFINE n == [thread[t] EXCEPT !.pc = "publish", !.ref = c]
    <2>1. thread' = [thread EXCEPT ![t] = n]
        BY <1>2
    <2>2. n.pc = "publish" /\ n.session = thread[t].session
        <3>1. thread[t] \in Thread
            OBVIOUS
        <3> QED BY <3>1 DEF Thread
    <2> HIDE DEF n
    <2> QED BY <2>1, <2>2
<1>4. /\ credentials'[c].session = s /\ credentials'[c].card
      /\ \A d \in References : d # c => credentials'[d] = credentials[d]
    BY <1>2 DEF NoCredential
<1>5. CardsOf(s)' = CardsOf(s) \cup {c}
    BY <1>4 DEF CardsOf
<1>6. \A r \in Sessions : r # s => CardsOf(r)' \subseteq CardsOf(r)
    BY <1>4 DEF CardsOf
<1> QED BY <1>1, <1>3, <1>5, <1>6 DEF Polling, Decided

\* Whoever comes to ask.
LEMMA AwaitStep ==
    ASSUME TypeOK, NEW t \in Threads, NEW s \in Sessions, AwaitPasskey(t, s)
    PROVE  /\ UNCHANGED <<prava, intents, credentials>> /\ intents[s].known /\ Made(s)
           /\ \A u \in Threads : u # t => thread'[u] = thread[u]
           /\ ~Polling(t, s) /\ thread'[t].session = s
           /\ thread'[t].pc = IF Known(s) THEN "answered" ELSE "poll"
           /\ thread'[t].outcome = intents[s].outcome
           /\ shared' = IF ~Known(s) /\ \E u \in Threads : Polling(u, s)
                        THEN shared \cup {s} ELSE shared
           /\ UNCHANGED agentVars
<1> USE DEF TypeOK, ClientTypeOK
<1> DEFINE n == [Idle EXCEPT !.session = s, !.pc = IF Known(s) THEN "answered" ELSE "poll",
                             !.outcome = intents[s].outcome, !.ref = intents[s].ref]
<1>1. thread' = [thread EXCEPT ![t] = n] /\ thread[t].pc = "idle"
    BY DEF AwaitPasskey, Await, Idle
<1>2. n.session = s /\ n.pc = (IF Known(s) THEN "answered" ELSE "poll")
      /\ n.outcome = intents[s].outcome
    BY DEF Idle
<1> HIDE DEF n
<1>3. /\ \A u \in Threads : u # t => thread'[u] = thread[u]
      /\ thread'[t] = n
    BY <1>1
<1> QED BY <1>1, <1>2, <1>3 DEF AwaitPasskey, Await, Polling, Made

LEMMA RestartStep ==
    ASSUME TypeOK, AgentRestart
    PROVE  /\ \A s \in Sessions : intents'[s] = NoIntent /\ CardsOf(s)' = {}
           /\ \A t \in Threads : thread'[t] = Idle
           /\ UNCHANGED <<prava, leases>>
           /\ \A s \in Sessions \ shared' : s \notin shared /\ intents[s].outcome = "none"
<1>1. \A c \in References : credentials'[c] = NoCredential
    BY DEF AgentRestart, Restart
<1>2. \A s \in Sessions : CardsOf(s)' = {}
    BY <1>1 DEF CardsOf, NoCredential
<1> QED BY <1>2 DEF AgentRestart, Restart

-----------------------------------------------------------------------------
(* The agent: what the client keeps                                        *)

LEMMA KnownStep ==
    ASSUME TypeOK, ThreadInv, KnownInv, [Next]_vars
    PROVE  KnownInv'
<1> SUFFICES ASSUME NEW s \in Sessions
             PROVE  /\ ~intents'[s].known => intents'[s] = NoIntent
                    /\ intents'[s].known => prava'[s] # "none"
                    /\ intents'[s].outcome = "approved" => Decided(s)'
    BY DEF KnownInv
<1>1. /\ ~intents[s].known => intents[s] = NoIntent
      /\ intents[s].known => prava[s] # "none"
      /\ intents[s].outcome = "approved" => Decided(s)
    BY DEF KnownInv
<1>2. (Decided(s) => Decided(s)') /\ (prava[s] # "none" => prava'[s] # "none")
    BY DecidedStays
<1>3. CASE Calm
    BY <1>1, <1>2, <1>3, CalmStep
<1>4. ASSUME NEW t \in Threads, Settles(t) \/ Publish(t)
      PROVE  /\ ~intents'[s].known => intents'[s] = NoIntent
             /\ intents'[s].known => prava'[s] # "none"
             /\ intents'[s].outcome = "approved" => Decided(s)'
    <2>1. Decided(s) => prava[s] # "none"
        BY DEF Decided
    <2>2. CASE s = thread[t].session
        <3>1. intents'[s].known /\ (intents'[s].outcome = "approved" => Decided(s))
            BY <1>4, <2>2, AnswerStep
        <3>2. intents[s].known
            BY <1>4, <2>2 DEF ThreadInv, Settles, Poll, Publish
        <3> QED BY <1>1, <1>2, <3>1, <3>2
    <2>3. CASE s # thread[t].session
        <3>1. intents'[s] = intents[s]
            BY <1>4, <2>3, AnswerStep
        <3> QED BY <1>1, <1>2, <3>1
    <2> QED BY <2>2, <2>3
<1>5. ASSUME NEW t \in Threads, Finds(t) \/ \E r \in Sessions : AwaitPasskey(t, r)
      PROVE  intents'[s] = intents[s]
    BY <1>5, FindStep, AwaitStep
<1>6. CASE AgentRestart
    <2>1. intents'[s] = NoIntent
        BY <1>6, RestartStep
    <2> QED BY <2>1 DEF NoIntent
<1> QED BY <1>1, <1>2, <1>3, <1>4, <1>5, <1>6, StepIs

LEMMA OnePollStep ==
    ASSUME TypeOK, ThreadInv, KnownInv, OnePollInv, [Next]_vars
    PROVE  OnePollInv'
<1> SUFFICES ASSUME NEW s \in Sessions, s \notin shared'
             PROVE  /\ \A t, u \in Threads : Polling(t, s)' /\ Polling(u, s)' => t = u
                    /\ \A t \in Threads : Polling(t, s)' => intents'[s].outcome = "none"
    BY DEF OnePollInv
<1> DEFINE Goal == /\ \A t, u \in Threads : Polling(t, s)' /\ Polling(u, s)' => t = u
                   /\ \A t \in Threads : Polling(t, s)' => intents'[s].outcome = "none"
<1> SUFFICES Goal
    OBVIOUS
<1>1. ASSUME s \notin shared
      PROVE  /\ \A t, u \in Threads : Polling(t, s) /\ Polling(u, s) => t = u
             /\ \A t \in Threads : Polling(t, s) => intents[s].outcome = "none"
    BY <1>1 DEF OnePollInv
<1>2. CASE Calm
    <2>1. s \notin shared /\ intents'[s].outcome = intents[s].outcome
        BY <1>2, CalmStep
    <2>2. \A t \in Threads : Polling(t, s)' => Polling(t, s)
        BY <1>2, CalmStep DEF Polling
    <2> QED BY <1>1, <2>1, <2>2
<1>3. ASSUME NEW t \in Threads, Settles(t) \/ Publish(t) PROVE Goal
    <2>1. s \notin shared
        BY <1>3, AnswerStep
    <2>2. \A u \in Threads : Polling(u, s)' => u # t /\ Polling(u, s)
        BY <1>3, AnswerStep DEF Polling
    <2>3. s = thread[t].session => Polling(t, s)
        BY <1>3, AnswerStep
    <2>4. s # thread[t].session => intents'[s] = intents[s]
        BY <1>3, AnswerStep
    <2> QED BY <1>1, <2>1, <2>2, <2>3, <2>4
<1>4. ASSUME NEW t \in Threads, Finds(t) PROVE Goal
    <2>1. s \notin shared /\ intents'[s] = intents[s]
        BY <1>4, FindStep
    <2>2. \A u \in Threads : Polling(u, s)' => Polling(u, s)
        BY <1>4, FindStep DEF Polling
    <2> QED BY <1>1, <2>1, <2>2
<1>5. ASSUME NEW t \in Threads, NEW r \in Sessions, AwaitPasskey(t, r) PROVE Goal
    <2>1. /\ intents'[s] = intents[s]
          /\ \A u \in Threads : u # t => thread'[u] = thread[u]
          /\ thread'[t].session = r
          /\ thread'[t].pc = IF Known(r) THEN "answered" ELSE "poll"
          /\ shared' = IF ~Known(r) /\ \E u \in Threads : Polling(u, r)
                       THEN shared \cup {r} ELSE shared
        BY <1>5, AwaitStep
    <2>2. s \notin shared
        BY <2>1
    <2>3. \A u \in Threads : u # t => (Polling(u, s)' <=> Polling(u, s))
        BY <2>1 DEF Polling
    <2>4. Polling(t, s)' => r = s /\ ~Known(s)
        BY <2>1 DEF Polling
    <2>5. Polling(t, s)' => \A u \in Threads : ~Polling(u, s)
        BY <2>1, <2>4
    <2> QED BY <1>1, <2>1, <2>2, <2>3, <2>4, <2>5 DEF Known
<1>6. CASE AgentRestart
    <2>1. \A t \in Threads : ~Polling(t, s)'
        BY <1>6, RestartStep DEF Polling, Idle
    <2> QED BY <2>1
<1> HIDE DEF Goal
<1> QED BY <1>2, <1>3, <1>4, <1>5, <1>6, StepIs

LEMMA OneCardStep ==
    ASSUME TypeOK, ThreadInv, KnownInv, OnePollInv, OneCardInv, [Next]_vars
    PROVE  OneCardInv'
<1> DEFINE Publishing(t, s) == thread[t].pc = "publish" /\ thread[t].session = s
<1> SUFFICES ASSUME NEW s \in Sessions, s \notin shared'
             PROVE  /\ \A c, d \in CardsOf(s)' : c = d
                    /\ CardsOf(s)' # {} => \/ intents'[s].outcome # "none"
                                           \/ \E t \in Threads : Publishing(t, s)'
    BY DEF OneCardInv
<1> DEFINE Goal == /\ \A c, d \in CardsOf(s)' : c = d
                   /\ CardsOf(s)' # {} => \/ intents'[s].outcome # "none"
                                          \/ \E t \in Threads : Publishing(t, s)'
<1> SUFFICES Goal
    OBVIOUS
<1>1. ASSUME s \notin shared
      PROVE  /\ \A t, u \in Threads : Polling(t, s) /\ Polling(u, s) => t = u
             /\ \A t \in Threads : Polling(t, s) => intents[s].outcome = "none"
             /\ \A c, d \in CardsOf(s) : c = d
             /\ CardsOf(s) # {} => \/ intents[s].outcome # "none"
                                   \/ \E t \in Threads : Publishing(t, s)
    BY <1>1 DEF OnePollInv, OneCardInv
<1>2. CASE Calm
    <2>1. s \notin shared /\ intents'[s].outcome = intents[s].outcome
        BY <1>2, CalmStep
    <2>2. CardsOf(s)' \subseteq CardsOf(s)
        BY <1>2, CalmStep
    <2>3. \A t \in Threads : Publishing(t, s) => Publishing(t, s)'
        BY <1>2, CalmStep
    <2> HIDE DEF Publishing
    <2> QED BY <1>1, <2>1, <2>2, <2>3
<1>3. ASSUME NEW t \in Threads, Settles(t) \/ Publish(t) PROVE Goal
    <2>1. s \notin shared /\ CardsOf(s)' = CardsOf(s)
        BY <1>3, AnswerStep DEF CardsOf
    <2>2. CASE s = thread[t].session
        <3>1. intents'[s].outcome # "none"
            BY <1>3, <2>2, AnswerStep
        <3> QED BY <1>1, <2>1, <3>1
    <2>3. CASE s # thread[t].session
        <3>1. intents'[s] = intents[s]
            BY <1>3, <2>3, AnswerStep
        <3>2. \A u \in Threads : Publishing(u, s) => Publishing(u, s)'
            BY <1>3, <2>3, AnswerStep
        <3> HIDE DEF Publishing
        <3> QED BY <1>1, <2>1, <3>1, <3>2
    <2> QED BY <2>2, <2>3
<1>4. ASSUME NEW t \in Threads, Finds(t) PROVE Goal
    <2>1. s \notin shared /\ intents'[s] = intents[s]
        BY <1>4, FindStep
    <2>2. CASE s = thread[t].session
        <3>1. Polling(t, s) /\ thread[t].pc = "poll" /\ Publishing(t, s)'
            BY <1>4, <2>2, FindStep
        <3>2. CardsOf(s) = {}
            <4>1. ASSUME NEW u \in Threads, Publishing(u, s) PROVE FALSE
                <5>1. Polling(u, s)
                    BY <4>1 DEF Polling
                <5>2. u = t
                    BY <1>1, <2>1, <3>1, <5>1
                <5> QED BY <3>1, <4>1, <5>2
            <4> HIDE DEF Publishing
            <4> QED BY <1>1, <2>1, <3>1, <4>1
        <3>3. \E c \in References : CardsOf(s)' = CardsOf(s) \cup {c}
            BY <1>4, <2>2, FindStep
        <3> HIDE DEF Publishing
        <3> QED BY <3>1, <3>2, <3>3
    <2>3. CASE s # thread[t].session
        <3>1. CardsOf(s)' \subseteq CardsOf(s)
            BY <1>4, <2>3, FindStep
        <3>2. \A u \in Threads : Publishing(u, s) => Publishing(u, s)'
            BY <1>4, <2>3, FindStep
        <3> HIDE DEF Publishing
        <3> QED BY <1>1, <2>1, <3>1, <3>2
    <2> QED BY <2>2, <2>3
<1>5. ASSUME NEW t \in Threads, NEW r \in Sessions, AwaitPasskey(t, r) PROVE Goal
    <2>1. s \notin shared /\ intents'[s] = intents[s] /\ CardsOf(s)' = CardsOf(s)
        BY <1>5, AwaitStep DEF CardsOf
    <2>2. \A u \in Threads : Publishing(u, s) => Publishing(u, s)'
        <3>1. thread[t].pc # "publish"
            BY <1>5 DEF AwaitPasskey, Await, Idle
        <3> QED BY <1>5, <3>1, AwaitStep
    <2> HIDE DEF Publishing
    <2> QED BY <1>1, <2>1, <2>2
<1>6. CASE AgentRestart
    <2>1. CardsOf(s)' = {}
        BY <1>6, RestartStep
    <2> QED BY <2>1
<1> HIDE DEF Goal
<1> QED BY <1>2, <1>3, <1>4, <1>5, <1>6, StepIs

LEMMA LeaseStep ==
    ASSUME TypeOK, \A c \in References : leases[c] <= 1, [Next]_vars
    PROVE  \A c \in References : leases'[c] <= 1
<1> USE DEF TypeOK, ClientTypeOK
<1>1. CASE UNCHANGED leases
    BY <1>1
<1>2. ASSUME NEW t \in Threads, Pop(t) PROVE \A c \in References : leases'[c] <= 1
    BY <1>2 DEF Pop
<1>3. UNCHANGED leases \/ \E t \in Threads : Pop(t)
    BY DEF Next, vars, clientVars, RequestIntent, IntentCreated, CreateIntent, AwaitPasskey, Await,
       CompleteCheckout, Mandated, PlaceOrder, AgentRestart, Restart, PollNext, Poll, Publish,
       CardNext, Consume, Finalize, Retire, Age, Purge, SessionNext, RegisterIntentContext, Decide
<1> QED BY <1>1, <1>2, <1>3

LEMMA KnownStays ==
    ASSUME TypeOK, ThreadInv, KnownInv, [Next]_vars, ~AgentRestart, NEW s \in Sessions,
           intents[s].known
    PROVE  intents'[s].known
<1>1. Calm => intents'[s].known
    BY CalmStep
<1>2. ASSUME NEW t \in Threads, Settles(t) \/ Publish(t) PROVE intents'[s].known
    BY <1>2, AnswerStep
<1>3. ASSUME NEW t \in Threads, Finds(t) \/ \E r \in Sessions : AwaitPasskey(t, r)
      PROVE  intents'[s].known
    BY <1>3, FindStep, AwaitStep
<1> QED BY <1>1, <1>2, <1>3, StepIs

LEMMA ThreadStep ==
    ASSUME TypeOK, ThreadInv, KnownInv, [Next]_vars
    PROVE  ThreadInv'
<1> DEFINE Fit(u) ==
        LET s == thread[u].session IN
        /\ thread[u].pc \in {"poll", "publish", "answered", "order"} => s \in Sessions
        /\ thread[u].pc \in {"poll", "publish"} => intents[s].known
        /\ thread[u].pc = "publish" => Decided(s)
        /\ thread[u].pc = "answered" =>
             /\ thread[u].outcome # "none"
             /\ thread[u].outcome = "approved" => Decided(s)
<1> SUFFICES ASSUME NEW u \in Threads PROVE Fit(u)'
    BY DEF ThreadInv
<1>1. Fit(u)
    BY DEF ThreadInv
<1>2. \A s \in Sessions : Decided(s) => Decided(s)'
    BY DecidedStays
<1>3. ASSUME ~AgentRestart PROVE \A s \in Sessions : intents[s].known => intents'[s].known
    BY <1>3, KnownStays
<1>4. ASSUME ~AgentRestart, thread'[u] = thread[u] PROVE Fit(u)'
    BY <1>1, <1>2, <1>3, <1>4 DEF Decided
<1>5. ASSUME ~AgentRestart, Calm PROVE Fit(u)'
    <2>1. CASE thread'[u] = thread[u]
        BY <1>4, <1>5, <2>1
    <2>2. CASE thread'[u] # thread[u]
        <3>1. /\ thread'[u].pc \notin {"poll", "publish", "answered"}
              /\ thread'[u].pc = "order" => thread'[u].session \in Sessions
            BY <1>5, <2>2, CalmStep
        <3> QED BY <3>1
    <2> QED BY <2>1, <2>2
<1>6. ASSUME ~AgentRestart, NEW t \in Threads, Settles(t) \/ Publish(t) PROVE Fit(u)'
    <2>1. CASE u # t
        <3>1. thread'[u] = thread[u]
            BY <1>6, <2>1, AnswerStep
        <3> QED BY <1>4, <1>6, <3>1
    <2>2. CASE u = t
        <3> DEFINE s == thread[t].session
        <3>1. /\ s \in Sessions /\ thread'[t].pc = "answered" /\ thread'[t].session = s
              /\ thread'[t].outcome # "none"
              /\ thread'[t].outcome = "approved" => Decided(s)
            BY <1>6, AnswerStep
        <3>2. thread'[t].outcome = "approved" => prava'[s] \in {"awaiting_result", "expired", "completed"}
            <4>1. UNCHANGED prava
                BY <1>6, AnswerStep
            <4> QED BY <3>1, <4>1 DEF Decided
        <3> QED BY <2>2, <3>1, <3>2 DEF Decided
    <2> QED BY <2>1, <2>2
<1>7. ASSUME ~AgentRestart, NEW t \in Threads, Finds(t) PROVE Fit(u)'
    <2>1. CASE u # t
        <3>1. thread'[u] = thread[u]
            BY <1>7, <2>1, FindStep
        <3> QED BY <1>4, <1>7, <3>1
    <2>2. CASE u = t
        <3> DEFINE s == thread[t].session
        <3>1. /\ s \in Sessions /\ thread'[t].pc = "publish" /\ thread'[t].session = s
              /\ Decided(s) /\ UNCHANGED <<prava, intents>> /\ thread[t].pc = "poll"
            BY <1>7, FindStep
        <3> QED BY <1>1, <2>2, <3>1 DEF Decided
    <2> QED BY <2>1, <2>2
<1>8. ASSUME ~AgentRestart, NEW t \in Threads, NEW s \in Sessions, AwaitPasskey(t, s) PROVE Fit(u)'
    <2>1. /\ UNCHANGED <<prava, intents>> /\ intents[s].known
          /\ thread'[t].session = s
          /\ thread'[t].pc = IF Known(s) THEN "answered" ELSE "poll"
          /\ thread'[t].outcome = intents[s].outcome
        BY <1>8, AwaitStep
    <2>2. CASE u # t
        <3>1. thread'[u] = thread[u]
            BY <1>8, <2>2, AwaitStep
        <3> QED BY <1>4, <1>8, <3>1
    <2>3. CASE u = t
        <3>1. intents[s].outcome = "approved" => Decided(s)
            BY DEF KnownInv
        <3> QED BY <2>1, <2>3, <3>1 DEF Decided, Known
    <2> QED BY <2>2, <2>3
<1>9. CASE AgentRestart
    <2>1. thread'[u] = Idle
        BY <1>9, RestartStep
    <2> QED BY <2>1 DEF Idle
<1> HIDE DEF Fit
<1> QED BY <1>5, <1>6, <1>7, <1>8, <1>9, StepIs

-----------------------------------------------------------------------------
(* The agent: its intents and its orders                                   *)

LEMMA MandatedAt ==
    ASSUME TypeOK, ThreadInv, CallInv, NEW t \in Threads, Mandated(t)
    PROVE  LET q == thread[t].session IN
           /\ q \in Sessions /\ Made(q)
           /\ \A s \in Sessions : s # q => intent'[s] = intent[s]
           /\ intent'[q].status \notin {"none", "asking"} /\ intent'[q].item = intent[q].item
           /\ intent'[q].mandate # NoReference => intent[q].mandate # NoReference \/ Decided(q)
           /\ UNCHANGED <<prava, booked, orders, crowded>>
<1> DEFINE q == thread[t].session
           n == [intent[q] EXCEPT !.status = thread[t].outcome,
                    !.mandate = IF thread[t].outcome = "approved" THEN thread[t].ref ELSE @]
<1> USE DEF TypeOK, ClientTypeOK
<1>1. /\ q \in Sessions /\ Made(q) /\ thread[t].pc = "answered" /\ thread[t].outcome # "none"
      /\ thread[t].outcome = "approved" => Decided(q)
    BY DEF Mandated, ThreadInv, CallInv
<1>2. thread[t].outcome \in {"none", "approved", "rejected", "expired"}
    <2>1. thread[t] \in Thread
        OBVIOUS
    <2> QED BY <2>1 DEF Thread
<1>3. intent' = [intent EXCEPT ![q] = n] /\ UNCHANGED <<prava, booked, orders, crowded>>
    BY DEF Mandated
<1>4. /\ n.status = thread[t].outcome /\ n.item = intent[q].item
      /\ n.mandate # NoReference => intent[q].mandate # NoReference \/ Decided(q)
    <2>1. intent[q] \in AgentIntent
        BY <1>1
    <2> QED BY <1>1, <2>1 DEF AgentIntent
<1>5. intent'[q] = n /\ \A s \in Sessions : s # q => intent'[s] = intent[s]
    <2> HIDE DEF n, q
    <2> QED BY <1>1, <1>3
<1> HIDE DEF n
<1> QED BY <1>1, <1>2, <1>3, <1>4, <1>5

\* The steps that change the context or the store.
LEMMA ContextSteps ==
    ASSUME [Next]_vars
    PROVE  \/ UNCHANGED agentVars
           \/ \E s \in Sessions : (\E i \in Items : RequestIntent(s, i)) \/ IntentCreated(s)
           \/ \E t \in Threads : Mandated(t) \/ PlaceOrder(t)
                                 \/ \E s \in Sessions : CompleteCheckout(t, s)
           \/ AgentRestart
BY DEF Next, vars, AwaitPasskey

LEMMA IntentCreatedAt ==
    ASSUME TypeOK, IntentInv, NEW s \in Sessions, IntentCreated(s)
    PROVE  /\ intent[s].status = "asking" /\ intent[s].mandate = NoReference
           /\ booked[s] = 0 /\ orders[s] = 0
           /\ \A r \in Sessions : r # s => intent'[r] = intent[r]
           /\ \/ intent'[s].status = "pending_approval" /\ intent'[s].item = intent[s].item
              \/ intent'[s].status = "none"
           /\ intent'[s].mandate = NoReference
           /\ UNCHANGED <<booked, orders, crowded>>
<1> USE DEF TypeOK
<1>1. /\ intent[s].status = "asking" /\ prava[s] = "none" /\ UNCHANGED <<booked, orders, crowded>>
      /\ intent' = [intent EXCEPT ![s] = IF intents'[s].known
                     THEN [@ EXCEPT !.status = "pending_approval"] ELSE NoAgentIntent]
    BY DEF IntentCreated, CreateIntent
<1>2. intent[s].mandate = NoReference /\ booked[s] = 0 /\ orders[s] = 0
    <2>1. ~Made(s) /\ ~Decided(s)
        BY <1>1 DEF Made, Decided
    <2>2. booked[s] \in Nat /\ orders[s] \in Nat
        OBVIOUS
    <2> QED BY <2>1, <2>2 DEF IntentInv
<1>3. intent[s] \in AgentIntent
    OBVIOUS
<1>4. \/ intent'[s] = [intent[s] EXCEPT !.status = "pending_approval"]
      \/ intent'[s] = NoAgentIntent
    BY <1>1
<1> QED BY <1>1, <1>2, <1>3, <1>4 DEF NoAgentIntent, AgentIntent

LEMMA MadeStays ==
    ASSUME TypeOK, ThreadInv, CallInv, IntentInv, [Next]_vars, ~AgentRestart,
           NEW s \in Sessions, Made(s)
    PROVE  Made(s)'
<1> USE DEF TypeOK
<1>1. CASE UNCHANGED intent
    BY <1>1 DEF Made
<1>2. ASSUME NEW r \in Sessions, NEW i \in Items, RequestIntent(r, i) PROVE Made(s)'
    BY <1>2 DEF RequestIntent, Made
<1>3. ASSUME NEW r \in Sessions, IntentCreated(r) PROVE Made(s)'
    BY <1>3, IntentCreatedAt DEF Made
<1>4. ASSUME NEW t \in Threads, Mandated(t) PROVE Made(s)'
    BY <1>4, MandatedAt DEF Made
<1> QED BY <1>1, <1>2, <1>3, <1>4, ContextSteps DEF agentVars, PlaceOrder, CompleteCheckout

LEMMA CallStep ==
    ASSUME TypeOK, ThreadInv, KnownInv, CallInv, IntentInv, [Next]_vars
    PROVE  CallInv'
<1> DEFINE Fit(u) ==
        /\ thread[u].pc \in {"poll", "publish", "answered", "order"} => Made(thread[u].session)
        /\ thread[u].pc = "order" => Decided(thread[u].session)
<1> SUFFICES ASSUME NEW u \in Threads PROVE Fit(u)'
    BY DEF CallInv
<1>1. Fit(u) /\ (thread[u].pc \in {"poll", "publish", "answered", "order"}
                   => thread[u].session \in Sessions)
    BY DEF CallInv, ThreadInv
<1>2. \A s \in Sessions : Decided(s) => Decided(s)'
    BY DecidedStays
<1>3. ASSUME ~AgentRestart PROVE \A s \in Sessions : Made(s) => Made(s)'
    BY <1>3, MadeStays
<1>4. ASSUME ~AgentRestart, thread'[u] = thread[u] PROVE Fit(u)'
    BY <1>1, <1>2, <1>3, <1>4 DEF Decided, Made
<1>5. ASSUME ~AgentRestart, Calm PROVE Fit(u)'
    <2>1. CASE thread'[u] = thread[u]
        BY <1>4, <1>5, <2>1
    <2>2. CASE thread'[u] # thread[u] /\ thread'[u].pc = "order"
        <3>1. PICK s \in Sessions : s = thread'[u].session /\ intent[s].mandate # NoReference
            BY <1>5, <2>2, CalmStep
        <3>2. Made(s)' /\ Decided(s)'
            BY <1>2, <1>3, <1>5, <3>1 DEF IntentInv
        <3> QED BY <2>2, <3>1, <3>2 DEF Made, Decided
    <2>3. CASE thread'[u] # thread[u] /\ thread'[u].pc # "order"
        <3>1. thread'[u].pc \notin {"poll", "publish", "answered"}
            BY <1>5, <2>3, CalmStep
        <3> QED BY <2>3, <3>1
    <2> QED BY <2>1, <2>2, <2>3
<1>6. ASSUME ~AgentRestart, NEW t \in Threads, Settles(t) \/ Publish(t) \/ Finds(t) PROVE Fit(u)'
    <2>1. CASE u # t
        <3>1. thread'[u] = thread[u]
            BY <1>6, <2>1, AnswerStep, FindStep
        <3> QED BY <1>4, <1>6, <3>1
    <2>2. CASE u = t
        <3>1. PICK s \in Sessions :
                 /\ s = thread[t].session /\ thread'[t].session = s /\ Polling(t, s)
                 /\ thread'[t].pc # "order"
            BY <1>6, AnswerStep, FindStep
        <3>2. Made(s)'
            BY <1>1, <1>3, <1>6, <2>2, <3>1 DEF Polling
        <3> QED BY <2>2, <3>1, <3>2 DEF Made
    <2> QED BY <2>1, <2>2
<1>7. ASSUME ~AgentRestart, NEW t \in Threads, NEW s \in Sessions, AwaitPasskey(t, s) PROVE Fit(u)'
    <2>1. CASE u # t
        <3>1. thread'[u] = thread[u]
            BY <1>7, <2>1, AwaitStep
        <3> QED BY <1>4, <1>7, <3>1
    <2>2. CASE u = t
        <3>1. Made(s)' /\ thread'[t].session = s /\ thread'[t].pc # "order"
            BY <1>3, <1>7, AwaitStep
        <3> QED BY <2>2, <3>1 DEF Made
    <2> QED BY <2>1, <2>2
<1>8. CASE AgentRestart
    <2>1. thread'[u] = Idle
        BY <1>8, RestartStep
    <2> QED BY <2>1 DEF Idle
<1> HIDE DEF Fit
<1> QED BY <1>5, <1>6, <1>7, <1>8, StepIs

LEMMA IntentStep ==
    ASSUME TypeOK, TypeOK', ThreadInv, CallInv, IntentInv, [Next]_vars
    PROVE  IntentInv'
<1> DEFINE Sound(s) ==
        /\ intent[s].status # "none" => intent[s].item \in Items
        /\ intent[s].mandate # NoReference => Made(s) /\ Decided(s)
        /\ booked[s] > 0 => Made(s)
        /\ orders[s] > 0 => Decided(s)
        /\ orders[s] <= 1
<1> SUFFICES ASSUME NEW s \in Sessions PROVE Sound(s)'
    BY DEF IntentInv
<1> USE DEF TypeOK
<1>1. Sound(s) /\ booked[s] \in Nat /\ orders[s] \in Nat
    BY DEF IntentInv
<1>2. Decided(s) => Decided(s)'
    BY DecidedStays
<1>3. intent'[s] = intent[s] /\ booked'[s] = booked[s] /\ orders'[s] = orders[s] => Sound(s)'
    BY <1>1, <1>2 DEF Made
<1>4. ASSUME NEW r \in Sessions, NEW i \in Items, RequestIntent(r, i) PROVE Sound(s)'
    <2>1. UNCHANGED <<booked, orders>>
        BY <1>4 DEF RequestIntent
    <2>2. CASE r # s
        BY <1>3, <1>4, <2>1, <2>2 DEF RequestIntent
    <2>3. CASE r = s
        <3>1. intent[s].status = "none"
            BY <1>4, <2>3 DEF RequestIntent
        <3>2. intent[s].mandate = NoReference /\ booked[s] = 0
            BY <1>1, <3>1 DEF Made
        <3>3. /\ intent'[s].item = i /\ intent'[s].mandate = intent[s].mandate
            BY <1>4, <2>3 DEF RequestIntent, AgentIntent
        <3> QED BY <1>1, <1>2, <2>1, <3>2, <3>3
    <2> QED BY <2>2, <2>3
<1>5. ASSUME NEW r \in Sessions, IntentCreated(r) PROVE Sound(s)'
    <2>1. UNCHANGED <<booked, orders>>
        BY <1>5 DEF IntentCreated
    <2>2. CASE r # s
        BY <1>3, <1>5, <2>1, <2>2, IntentCreatedAt
    <2>3. CASE r = s
        BY <1>1, <1>2, <1>5, <2>1, <2>3, IntentCreatedAt DEF Made
    <2> QED BY <2>2, <2>3
<1>6. ASSUME NEW t \in Threads, Mandated(t) PROVE Sound(s)'
    <2>1. UNCHANGED <<booked, orders>>
        BY <1>6 DEF Mandated
    <2>2. CASE s # thread[t].session
        BY <1>3, <1>6, <2>1, <2>2, MandatedAt
    <2>3. CASE s = thread[t].session
        <3>1. /\ Made(s) /\ intent'[s].status \notin {"none", "asking"}
              /\ intent'[s].item = intent[s].item
              /\ intent'[s].mandate # NoReference => intent[s].mandate # NoReference \/ Decided(s)
            BY <1>6, <2>3, MandatedAt
        <3> QED BY <1>1, <1>2, <2>1, <3>1 DEF Made
    <2> QED BY <2>2, <2>3
<1>7. ASSUME NEW t \in Threads, PlaceOrder(t) PROVE Sound(s)'
    <2>1. UNCHANGED <<intent, prava>>
        BY <1>7 DEF PlaceOrder
    <2>2. CASE s # thread[t].session
        BY <1>3, <1>7, <2>1, <2>2 DEF PlaceOrder, Stored, Books
    <2>3. CASE s = thread[t].session
        <3>1. Made(s) /\ Decided(s)
            BY <1>7, <2>3 DEF PlaceOrder, CallInv
        <3>2. orders'[s] <= 1
            BY <1>1, <1>7, <2>3 DEF PlaceOrder, Stored
        <3> QED BY <1>1, <1>2, <2>1, <3>1, <3>2 DEF Made
    <2> QED BY <2>2, <2>3
<1>8. ASSUME NEW t \in Threads, NEW r \in Sessions, CompleteCheckout(t, r) PROVE Sound(s)'
    <2>1. UNCHANGED <<intent, orders, prava>>
        BY <1>8 DEF CompleteCheckout
    <2>2. CASE s # r
        BY <1>3, <1>8, <2>1, <2>2 DEF CompleteCheckout, Books
    <2>3. CASE s = r
        <3>1. Made(s)
            BY <1>1, <1>8, <2>3 DEF CompleteCheckout
        <3> QED BY <1>1, <1>2, <2>1, <3>1 DEF Made
    <2> QED BY <2>2, <2>3
<1>9. CASE AgentRestart
    <2>1. intent'[s] = NoAgentIntent /\ booked'[s] = 0 /\ UNCHANGED orders
        BY <1>9 DEF AgentRestart
    <2> QED BY <1>1, <1>2, <2>1 DEF NoAgentIntent
<1>10. CASE UNCHANGED agentVars
    BY <1>3, <1>10 DEF agentVars
<1> HIDE DEF Sound
<1> QED BY <1>4, <1>5, <1>6, <1>7, <1>8, <1>9, <1>10, ContextSteps

-----------------------------------------------------------------------------
(* The agent: its cap                                                      *)

LEMMA AskedType ==
    ASSUME TypeOK, IntentInv
    PROVE  /\ Asked \in [Sessions -> Nat] /\ SumFunction(Asked) = SumFunctionOnSet(Asked, Sessions)
           /\ SumFunction(Asked) \in Nat
<1>1. \A s \in Sessions : intent[s].status # "none" => Price[intent[s].item] \in Nat
    BY PriceAssumption DEF IntentInv
<1>2. Asked \in [Sessions -> Nat]
    BY <1>1 DEF Asked
<1>3. SumFunction(Asked) = SumFunctionOnSet(Asked, Sessions)
    BY <1>2 DEF SumFunction
<1> QED BY <1>2, <1>3, SessionsAssumption, SumType

LEMMA AskedTypeNext ==
    ASSUME TypeOK', IntentInv'
    PROVE  /\ Asked' \in [Sessions -> Nat]
           /\ SumFunction(Asked') = SumFunctionOnSet(Asked', Sessions)
           /\ SumFunction(Asked') \in Nat
<1>1. \A s \in Sessions : intent'[s].status # "none" => Price[intent'[s].item] \in Nat
    BY PriceAssumption DEF IntentInv
<1>2. Asked' \in [Sessions -> Nat]
    BY <1>1 DEF Asked
<1>3. SumFunction(Asked') = SumFunctionOnSet(Asked', Sessions)
    BY <1>2 DEF SumFunction
<1> QED BY <1>2, <1>3, SessionsAssumption, SumType

LEMMA AskedShrinks ==
    ASSUME TypeOK, TypeOK', IntentInv, IntentInv', \A s \in Sessions : Asked'[s] <= Asked[s],
           SumFunction(Asked) <= MonthlyCap
    PROVE  SumFunction(Asked') <= MonthlyCap
<1>1. Sessions \in SUBSET (Sessions \cap Sessions)
    OBVIOUS
<1>2. SumFunctionOnSet(Asked', Sessions) <= SumFunctionOnSet(Asked, Sessions)
    BY <1>1, AskedType, AskedTypeNext, SessionsAssumption, SumMonotone
<1> QED BY <1>2, AskedType, AskedTypeNext, MonthlyCapAssumption

\* With nothing open, what was asked for is what was spent, and counted.
LEMMA AskedIsSpent ==
    ASSUME TypeOK, IntentInv, \A r \in Sessions : ~Open(r)
    PROVE  /\ SumFunction(Asked) <= MonthlySpend /\ MonthlySpend \in Nat
<1> DEFINE S == [s \in Sessions |-> IF booked[s] = 0 THEN 0 ELSE booked[s] * Price[intent[s].item]]
<1>1. ASSUME NEW s \in Sessions PROVE S[s] \in Nat /\ Asked[s] <= S[s]
    <2>1. booked[s] \in Nat
        BY DEF TypeOK
    <2>2. CASE booked[s] = 0
        <3>1. intent[s].status = "none"
            BY <2>2 DEF Open
        <3> QED BY <2>2, <3>1 DEF Asked
    <2>3. CASE booked[s] > 0
        <3>1. intent[s].status # "none" /\ intent[s].item \in Items
            BY <2>3 DEF IntentInv, Made
        <3> DEFINE p == Price[intent[s].item]
                   b == booked[s]
        <3>2. p \in Nat /\ b \in Nat /\ b >= 1
            BY <2>1, <2>3, <3>1, PriceAssumption
        <3>3. b * p \in Nat /\ p <= b * p
            <4> HIDE DEF p, b
            <4>1. PICK k \in Nat : b = k + 1
                <5>1. b - 1 \in Nat /\ b = (b - 1) + 1
                    BY <3>2
                <5> QED BY <5>1
            <4>2. b * p = k * p + p
                BY <3>2, <4>1
            <4>3. k * p \in Nat
                BY <3>2, <4>1
            <4> QED BY <3>2, <4>2, <4>3
        <3> QED BY <2>3, <3>1, <3>3 DEF Asked
    <2> QED BY <2>1, <2>2, <2>3
<1>2. S \in [Sessions -> Nat] /\ SumFunction(S) = SumFunctionOnSet(S, Sessions)
    BY <1>1 DEF SumFunction
<1>3. MonthlySpend = SumFunction(S)
    BY DEF MonthlySpend
<1> HIDE DEF S
<1>4. Sessions \in SUBSET (Sessions \cap Sessions)
    OBVIOUS
<1>5. SumFunctionOnSet(Asked, Sessions) <= SumFunctionOnSet(S, Sessions)
    BY <1>1, <1>2, <1>4, AskedType, SessionsAssumption, SumMonotone
<1>6. SumFunctionOnSet(S, Sessions) \in Nat
    BY <1>2, SessionsAssumption, SumType
<1> QED BY <1>2, <1>3, <1>5, <1>6, AskedType

LEMMA AskedStep ==
    ASSUME TypeOK, TypeOK', ThreadInv, CallInv, IntentInv, IntentInv', AskedInv, [Next]_vars
    PROVE  AskedInv'
<1> DEFINE Placed == \A s \in Sessions : orders[s] > 0 => intent[s].status # "none"
<1> SUFFICES ASSUME ~crowded' PROVE SumFunction(Asked') <= MonthlyCap /\ Placed'
    BY DEF AskedInv
<1> USE DEF TypeOK
<1>1. ASSUME ~crowded PROVE SumFunction(Asked) <= MonthlyCap /\ Placed
    BY <1>1 DEF AskedInv
<1>2. ASSUME ~crowded, \A s \in Sessions : /\ intent'[s].status = intent[s].status \/ intent'[s].status # "none"
                                           /\ intent[s].status # "none" \/ intent'[s] = intent[s]
                                           /\ intent'[s].item = intent[s].item
                                           /\ orders'[s] > 0 => orders[s] > 0 \/ Made(s)
      PROVE  SumFunction(Asked') <= MonthlyCap /\ Placed'
    <2>1. ASSUME NEW s \in Sessions PROVE Asked'[s] <= Asked[s]
        <3>1. Asked[s] \in Nat
            BY AskedType
        <3>2. Asked'[s] = Asked[s]
            BY <1>2 DEF Asked
        <3> QED BY <3>1, <3>2
    <2>2. SumFunction(Asked') <= MonthlyCap
        BY <1>1, <1>2, <2>1, AskedShrinks
    <2>3. Placed'
        BY <1>1, <1>2 DEF Made
    <2> QED BY <2>2, <2>3
<1>3. ASSUME NEW s \in Sessions, NEW i \in Items, RequestIntent(s, i)
      PROVE  SumFunction(Asked') <= MonthlyCap /\ Placed'
    <2>1. ~crowded /\ \A r \in Sessions : ~Open(r)
        BY <1>3 DEF RequestIntent
    <2>2. MonthlySpend + Price[i] <= MonthlyCap /\ intent[s].status = "none" /\ orders' = orders
        BY <1>3 DEF RequestIntent, Affordable
    <2>3. /\ intent'[s].status = "asking" /\ intent'[s].item = i
          /\ \A r \in Sessions : r # s => intent'[r] = intent[r]
        BY <1>3 DEF RequestIntent, AgentIntent
    <2>4. Asked'[s] = Price[i] /\ Asked[s] = 0
        BY <2>2, <2>3 DEF Asked
    <2>5. \A r \in Sessions \ {s} : Asked'[r] = Asked[r]
        BY <2>3 DEF Asked
    <2> DEFINE R == Sessions \ {s}
    <2>6. IsFiniteSet(R) /\ R \in SUBSET (Sessions \cap Sessions) /\ R \in SUBSET Sessions
        BY SessionsAssumption, FS_RemoveElement
    <2>7. SumFunctionOnSet(Asked', Sessions) = Price[i] + SumFunctionOnSet(Asked', R)
        BY <2>4, AskedTypeNext, SessionsAssumption, SumTakes
    <2>8. SumFunctionOnSet(Asked', R) <= SumFunctionOnSet(Asked, R)
        <3>1. \A r \in R : Asked'[r] <= Asked[r]
            BY <2>5, AskedType
        <3> HIDE DEF R
        <3> QED BY <2>6, <3>1, AskedType, AskedTypeNext, SumMonotone
    <2>9. SumFunctionOnSet(Asked, R) <= SumFunctionOnSet(Asked, Sessions)
        BY AskedType, SessionsAssumption, SumOfSubset
    <2>10. SumFunctionOnSet(Asked', R) \in Nat /\ SumFunctionOnSet(Asked, R) \in Nat
        <3> HIDE DEF R
        <3> QED BY <2>6, AskedType, AskedTypeNext, SumType
    <2>11. SumFunction(Asked) <= MonthlySpend /\ MonthlySpend \in Nat
        BY <2>1, AskedIsSpent
    <2>12. Price[i] \in Nat
        BY PriceAssumption
    <2> HIDE DEF R
    <2>13. SumFunction(Asked') <= MonthlyCap
        BY <2>2, <2>7, <2>8, <2>9, <2>10, <2>11, <2>12, AskedType, AskedTypeNext,
           MonthlyCapAssumption
    <2>14. Placed'
        BY <1>1, <2>1, <2>2, <2>3
    <2> QED BY <2>13, <2>14
<1>4. ASSUME NEW s \in Sessions, IntentCreated(s)
      PROVE  SumFunction(Asked') <= MonthlyCap /\ Placed'
    <2>1. ~crowded /\ orders' = orders /\ orders[s] = 0 /\ intent[s].status = "asking"
          /\ \A r \in Sessions : r # s => intent'[r] = intent[r]
        BY <1>4, IntentCreatedAt
    <2>2. \/ intent'[s].status = "pending_approval" /\ intent'[s].item = intent[s].item
          \/ intent'[s].status = "none"
        BY <1>4, IntentCreatedAt
    <2>3. ASSUME NEW r \in Sessions PROVE Asked'[r] <= Asked[r]
        <3>1. Asked[r] \in Nat
            BY AskedType
        <3>2. Asked'[r] = Asked[r] \/ Asked'[r] = 0
            BY <2>1, <2>2 DEF Asked
        <3> QED BY <3>1, <3>2
    <2>4. SumFunction(Asked') <= MonthlyCap
        BY <1>1, <2>1, <2>3, AskedShrinks
    <2>5. Placed'
        BY <1>1, <2>1
    <2> QED BY <2>4, <2>5
<1>5. ASSUME NEW t \in Threads, Mandated(t)
      PROVE  SumFunction(Asked') <= MonthlyCap /\ Placed'
    <2>1. ~crowded /\ orders' = orders
        BY <1>5, MandatedAt
    <2>2. \A s \in Sessions : /\ intent'[s].status = intent[s].status \/ intent'[s].status # "none"
                              /\ intent[s].status # "none" \/ intent'[s] = intent[s]
                              /\ intent'[s].item = intent[s].item
        BY <1>5, MandatedAt DEF Made
    <2> QED BY <1>2, <2>1, <2>2
<1>6. ASSUME NEW t \in Threads, PlaceOrder(t)
      PROVE  SumFunction(Asked') <= MonthlyCap /\ Placed'
    <2>1. UNCHANGED <<crowded, intent>> /\ Made(thread[t].session)
        BY <1>6 DEF PlaceOrder, CallInv
    <2>2. \A s \in Sessions : orders'[s] > 0 => orders[s] > 0 \/ Made(s)
        BY <1>6, <2>1 DEF PlaceOrder, Stored
    <2> QED BY <1>2, <2>1, <2>2
<1>7. ASSUME UNCHANGED <<intent, orders, crowded>>
      PROVE  SumFunction(Asked') <= MonthlyCap /\ Placed'
    BY <1>2, <1>7
<1>8. ASSUME AgentRestart
      PROVE  SumFunction(Asked') <= MonthlyCap /\ Placed'
    <2>1. ~crowded /\ orders' = orders /\ \A s \in Sessions : intent[s].status = "none"
        BY <1>8 DEF AgentRestart
    <2>2. \A s \in Sessions : intent'[s].status = "none"
        BY <1>8 DEF AgentRestart, NoAgentIntent
    <2>3. \A s \in Sessions : Asked'[s] <= Asked[s]
        BY <2>1, <2>2 DEF Asked
    <2>4. SumFunction(Asked') <= MonthlyCap
        BY <1>1, <2>1, <2>3, AskedShrinks
    <2>5. Placed'
        BY <1>1, <2>1
    <2> QED BY <2>4, <2>5
<1> HIDE DEF Placed
<1> QED BY <1>3, <1>4, <1>5, <1>6, <1>7, <1>8, ContextSteps DEF agentVars, CompleteCheckout

-----------------------------------------------------------------------------
(* The agent: its theorems                                                 *)

LEMMA SumOfZeros ==
    ASSUME NEW D, NEW f \in [D -> Nat], NEW S \in SUBSET D, IsFiniteSet(S), \A x \in S : f[x] = 0
    PROVE  SumFunctionOnSet(f, S) = 0
<1> DEFINE P == {T \in SUBSET S : SumFunctionOnSet(f, T) = 0}
<1>1. ASSUME NEW T \in SUBSET S, \A U \in SUBSET T : U # T => U \in P PROVE T \in P
    <2>1. CASE T = {}
        BY <2>1, SumOfNone
    <2>2. CASE T # {}
        <3>1. PICK x \in T : SumFunctionOnSet(f, T) = f[x] + SumFunctionOnSet(f, T \ {x})
            BY <2>2, SumPicksOne, FS_Subset
        <3>2. SumFunctionOnSet(f, T \ {x}) = 0
            BY <1>1
        <3> QED BY <3>1, <3>2
    <2> QED BY <2>1, <2>2
<1>2. S \in P
    <2> HIDE DEF P
    <2> QED BY <1>1, SubsetInduction
<1> QED BY <1>2

LEMMA AgentInitInv == Init => AgentInv
<1> SUFFICES ASSUME Init PROVE AgentInv
    OBVIOUS
<1> USE DEF Init, ClientInit
<1>1. \A t \in Threads : thread[t].pc = "idle"
    BY DEF Idle
<1>2. \A s \in Sessions : intents[s] = NoIntent /\ CardsOf(s) = {}
    BY DEF CardsOf, NoCredential
<1>3. ThreadInv /\ CallInv
    BY <1>1 DEF ThreadInv, CallInv
<1>4. KnownInv
    BY <1>2 DEF KnownInv, NoIntent
<1>5. OnePollInv /\ OneCardInv
    BY <1>1, <1>2 DEF OnePollInv, OneCardInv, Polling
<1>6. \A c \in References : leases[c] <= 1
    OBVIOUS
<1>7. IntentInv
    BY DEF IntentInv, NoAgentIntent
<1>8. AskedInv
    <2>1. TypeOK
        BY AgentInitTyped
    <2>2. \A s \in Sessions : Asked[s] = 0
        BY DEF Asked, NoAgentIntent
    <2>3. SumFunctionOnSet(Asked, Sessions) = 0
        BY <1>7, <2>1, <2>2, AskedType, SessionsAssumption, SumOfZeros
    <2>4. SumFunction(Asked) <= MonthlyCap
        BY <1>7, <2>1, <2>3, AskedType, MonthlyCapAssumption
    <2>5. \A s \in Sessions : ~(orders[s] > 0)
        OBVIOUS
    <2> QED BY <2>4, <2>5 DEF AskedInv
<1> QED BY <1>3, <1>4, <1>5, <1>6, <1>7, <1>8 DEF AgentInv, ClientInv

LEMMA AgentStepInv == TypeOK /\ TypeOK' /\ AgentInv /\ [Next]_vars => AgentInv'
<1> SUFFICES ASSUME TypeOK, TypeOK', AgentInv, [Next]_vars PROVE AgentInv'
    OBVIOUS
<1>1. /\ ThreadInv /\ KnownInv /\ OnePollInv /\ OneCardInv
      /\ \A c \in References : leases[c] <= 1
      /\ IntentInv /\ CallInv /\ AskedInv
    BY DEF AgentInv, ClientInv
<1>2. ThreadInv' /\ KnownInv'
    BY <1>1, ThreadStep, KnownStep
<1>3. OnePollInv' /\ OneCardInv'
    BY <1>1, OnePollStep, OneCardStep
<1>4. \A c \in References : leases'[c] <= 1
    BY <1>1, LeaseStep
<1>5. IntentInv'
    BY <1>1, IntentStep
<1>6. CallInv'
    BY <1>1, CallStep
<1>7. AskedInv'
    BY <1>1, <1>5, AskedStep
<1> QED BY <1>2, <1>3, <1>4, <1>5, <1>6, <1>7 DEF AgentInv, ClientInv

\* The inductive invariant of the agent and of its client: a thread asks about
\* a session the process knows and the agent made, one thread at most polls it,
\* one card at most is made of it, and what was asked for fits the cap.
THEOREM AgentInvariant == Spec => []AgentInv
<1>1. Init => AgentInv
    BY AgentInitInv
<1>2. TypeOK /\ TypeOK' /\ AgentInv /\ [Next]_vars => AgentInv'
    BY AgentStepInv
<1> QED BY <1>1, <1>2, AgentTyping, PTL DEF Spec

\* However many threads race for a card, it is handed out once under each of
\* its references; and it has one reference, unless two polls of its session
\* overlapped or a restart forgot the session.
THEOREM LeasesOnce == Spec => []LeasedOnce
<1>1. AgentInv => LeasedOnce
    <2> SUFFICES ASSUME AgentInv, NEW s \in Sessions \ shared
                 PROVE  Cardinality(CardsOf(s)) <= 1
        BY DEF AgentInv, ClientInv, LeasedOnce
    <2>1. \A c, d \in CardsOf(s) : c = d
        BY DEF AgentInv, ClientInv, OneCardInv
    <2>2. CASE CardsOf(s) = {}
        BY <2>2, FS_EmptySet
    <2>3. CASE CardsOf(s) # {}
        <3>1. PICK c : CardsOf(s) = {c}
            BY <2>1, <2>3
        <3> QED BY <3>1, FS_Singleton
    <2> QED BY <2>2, <2>3
<1> QED BY <1>1, AgentInvariant, PTL

\* An outcome that was answered to a caller of await_mandate, and the reference
\* that came with it, are not replaced by a later poll's.
THEOREM OutcomesStay == Spec => OutcomeIsFinal
<1>1. ASSUME TypeOK, AgentInv, [Next]_vars, NEW s \in Sessions \ shared', intents[s].outcome # "none"
      PROVE  intents'[s].outcome = intents[s].outcome /\ intents'[s].ref = intents[s].ref
    <2>0. ThreadInv /\ KnownInv /\ OnePollInv
        BY <1>1 DEF AgentInv, ClientInv
    <2>1. CASE Calm
        BY <1>1, <2>0, <2>1, CalmStep
    <2>2. ASSUME NEW t \in Threads, Settles(t) \/ Publish(t) PROVE intents'[s] = intents[s]
        <3>1. /\ Polling(t, thread[t].session) /\ shared' = shared
              /\ s # thread[t].session => intents'[s] = intents[s]
            BY <1>1, <2>0, <2>2, AnswerStep
        <3>2. s # thread[t].session
            BY <1>1, <2>0, <3>1 DEF OnePollInv
        <3> QED BY <3>1, <3>2
    <2>3. ASSUME NEW t \in Threads, Finds(t) PROVE intents'[s] = intents[s]
        BY <1>1, <2>0, <2>3, FindStep
    <2>4. ASSUME NEW t \in Threads, NEW r \in Sessions, AwaitPasskey(t, r)
          PROVE  intents'[s] = intents[s]
        BY <1>1, <2>4, AwaitStep
    <2>5. ~AgentRestart
        BY <1>1, RestartStep
    <2> QED BY <1>1, <2>1, <2>2, <2>3, <2>4, <2>5, StepIs
<1>2. TypeOK /\ AgentInv /\ [Next]_vars =>
        [\A s \in Sessions \ shared' :
             intents[s].outcome # "none" =>
                 intents'[s].outcome = intents[s].outcome
                 /\ intents'[s].ref = intents[s].ref]_clientVars
    BY <1>1
<1> QED BY <1>2, AgentTyping, AgentInvariant, PTL DEF Spec, OutcomeIsFinal

\* However often an intent is completed, and from however many threads, the
\* merchant's store has one order of it, and none the user has not approved.
THEOREM OrdersOnce == Spec => []OneApprovedOrder
<1>1. AgentInv => OneApprovedOrder
    BY DEF AgentInv, IntentInv, Decided, OneApprovedOrder
<1> QED BY <1>1, AgentInvariant, PTL

\* What was ordered fits the cap, for any prices and any cap, as long as no
\* request was checked beside an open intent or after a restart.
THEOREM AgentCap == Spec => []CapHoldsUnlessCrowded
<1>1. TypeOK /\ AgentInv => CapHoldsUnlessCrowded
    <2> SUFFICES ASSUME TypeOK, AgentInv, ~crowded
                 PROVE  SumFunction([s \in Sessions |-> IF orders[s] = 0 THEN 0
                                                        ELSE Price[intent[s].item]])
                        <= MonthlyCap
        BY DEF CapHoldsUnlessCrowded
    <2> DEFINE O == [s \in Sessions |-> IF orders[s] = 0 THEN 0 ELSE Price[intent[s].item]]
    <2>0. /\ IntentInv /\ SumFunction(Asked) <= MonthlyCap
          /\ \A s \in Sessions : orders[s] > 0 => intent[s].status # "none"
        BY DEF AgentInv, AskedInv
    <2>1. ASSUME NEW s \in Sessions PROVE O[s] \in Nat /\ O[s] <= Asked[s]
        <3>1. Asked[s] \in Nat /\ orders[s] \in Nat
            BY <2>0, AskedType DEF TypeOK
        <3>2. O[s] = 0 \/ O[s] = Asked[s]
            BY <2>0, <3>1 DEF Asked
        <3> QED BY <3>1, <3>2
    <2>2. O \in [Sessions -> Nat] /\ SumFunction(O) = SumFunctionOnSet(O, Sessions)
        BY <2>1 DEF SumFunction
    <2>3. Sessions \in SUBSET (Sessions \cap Sessions)
        OBVIOUS
    <2> HIDE DEF O
    <2>4. SumFunctionOnSet(O, Sessions) <= SumFunctionOnSet(Asked, Sessions)
        BY <2>0, <2>1, <2>2, <2>3, AskedType, SessionsAssumption, SumMonotone
    <2>5. SumFunctionOnSet(O, Sessions) \in Nat
        BY <2>2, SessionsAssumption, SumType
    <2>6. SumFunction(O) <= MonthlyCap
        BY <2>0, <2>2, <2>4, <2>5, AskedType, MonthlyCapAssumption
    <2> QED BY <2>6 DEF O
<1> QED BY <1>1, AgentTyping, AgentInvariant, PTL
=============================================================================
