------------------------------ MODULE SumLemmas ------------------------------
(***************************************************************************)
(* What sums over finite sets (SumFunctionOnSet) have in common: the order *)
(* does not matter, they may be split, and they change as their elements   *)
(* do.  The balances of this marketplace are such sums: credit sessions,   *)
(* a mandate's funding steps, an account's entries.                        *)
(*                                                                         *)
(* The sum is defined by a recursion on sets, and the provers cannot       *)
(* instantiate an induction theorem with a predicate.  A set can stand for *)
(* one: P, the parts of S that have the property, is all of SUBSET S if it *)
(* has every part whose smaller parts it has (PartInduction).  That        *)
(* follows from the library's theorem that strict inclusion on the parts   *)
(* of a finite set is well founded.                                        *)
(***************************************************************************)
EXTENDS Integers, Functions, FiniteSetTheorems, TLAPS

\* Among the parts of a finite set that have a property, some have no smaller one
\* that has it, too.
LEMMA SmallestPart ==
    ASSUME NEW S, IsFiniteSet(S), NEW P \in SUBSET (SUBSET S), P # {}
    PROVE  \E T \in P : \A U \in P : ~ (U \subseteq T /\ U # T)
<1>1. IsWellFoundedOn(StrictSubsetOrdering(S), FiniteSubsetsOf(S))
    BY FS_StrictSubsetOrderingWellFounded
<1>2. P \subseteq FiniteSubsetsOf(S)
    BY FS_FiniteSubsetsOfFinite
<1>3. PICK T \in P : \A U \in P : ~ (<<U, T>> \in StrictSubsetOrdering(S))
    BY <1>1, <1>2, WFMin
<1> QED
    BY <1>3 DEF StrictSubsetOrdering

\* Induction over the parts of a finite set: what is true of the empty set, and
\* of a set when it is true of that set without one of its elements.
LEMMA PartInduction ==
    ASSUME NEW S, IsFiniteSet(S), NEW P \in SUBSET (SUBSET S),
           \A T \in SUBSET S : (\A U \in SUBSET T : U # T => U \in P) => T \in P
    PROVE  P = SUBSET S
<1> DEFINE Others == (SUBSET S) \ P
<1>1. Others \in SUBSET (SUBSET S)
    OBVIOUS
<1>2. CASE Others # {}
    <2>1. PICK T \in Others : \A U \in Others : ~ (U \subseteq T /\ U # T)
        <3> HIDE DEF Others
        <3> QED
            BY <1>1, <1>2, SmallestPart
    <2> QED
        BY <2>1
<1> QED
    BY <1>2

-----------------------------------------------------------------------------

\* The element of a set that a sum takes next, and the equation its recursion solves.
FirstOf(s) == CHOOSE x \in s : TRUE
Solves(g, f, S) == g = [s \in SUBSET S |-> IF s = {} THEN 0 ELSE f[FirstOf(s)] + g[s \ {FirstOf(s)}]]

\* A sum takes an element of its set.
LEMMA FirstIsThere ==
    ASSUME NEW s, s # {}
    PROVE  FirstOf(s) \in s
BY DEF FirstOf

\* The sum is the solution that the definition chooses.
LEMMA SumIsSolution ==
    ASSUME NEW f, NEW S
    PROVE  SumFunctionOnSet(f, S) = (CHOOSE g : Solves(g, f, S))[S]
BY DEF SumFunctionOnSet, FoldFunctionOnSet, MapThenFoldSet, Solves, FirstOf

\* The equation has at most one solution on the parts of a finite set.
LEMMA SolutionUnique ==
    ASSUME NEW f, NEW S, IsFiniteSet(S), NEW g, NEW h, Solves(g, f, S), Solves(h, f, S)
    PROVE  g[S] = h[S]
<1> DEFINE P == {s \in SUBSET S : g[s] = h[s]}
<1>1. ASSUME NEW T \in SUBSET S, \A U \in SUBSET T : U # T => U \in P
      PROVE  T \in P
    <2>1. CASE T = {}
        BY <2>1 DEF Solves
    <2>2. CASE T # {}
        <3>1. FirstOf(T) \in T
            BY <2>2, FirstIsThere
        <3>2. g[T \ {FirstOf(T)}] = h[T \ {FirstOf(T)}]
            BY <1>1, <3>1
        <3>3. g[T] = f[FirstOf(T)] + g[T \ {FirstOf(T)}] /\ h[T] = f[FirstOf(T)] + h[T \ {FirstOf(T)}]
            BY <2>2 DEF Solves
        <3> QED
            BY <3>2, <3>3
    <2> QED
        BY <2>1, <2>2
<1>2. P = SUBSET S
    <2> HIDE DEF P
    <2>1. P \in SUBSET (SUBSET S)
        BY DEF P
    <2> QED
        BY <1>1, <2>1, PartInduction
<1> QED
    BY <1>2

\* The sum over a finite set takes one element after the other.
LEMMA SumStep ==
    ASSUME NEW f, NEW S, IsFiniteSet(S)
    PROVE  SumFunctionOnSet(f, S)
             = IF S = {} THEN 0 ELSE f[FirstOf(S)] + SumFunctionOnSet(f, S \ {FirstOf(S)})
<1> DEFINE Step(T) == IF T = {} THEN 0 ELSE f[FirstOf(T)] + SumFunctionOnSet(f, T \ {FirstOf(T)})
           P == {T \in SUBSET S : SumFunctionOnSet(f, T) = Step(T)}
<1>1. ASSUME NEW T \in SUBSET S, \A U \in SUBSET T : U # T => U \in P
      PROVE  T \in P
    <2> DEFINE G == [s \in SUBSET T |-> Step(s)]
    <2>1. IsFiniteSet(T)
        BY FS_Subset
    <2>2. Solves(G, f, T)
        <3>1. ASSUME NEW s \in SUBSET T
              PROVE  Step(s) = IF s = {} THEN 0 ELSE f[FirstOf(s)] + G[s \ {FirstOf(s)}]
            <4>1. CASE s = {}
                BY <4>1
            <4>2. CASE s # {}
                <5>1. s \ {FirstOf(s)} \in SUBSET T /\ s \ {FirstOf(s)} # T
                    BY <4>2, FirstIsThere
                <5>2. SumFunctionOnSet(f, s \ {FirstOf(s)}) = Step(s \ {FirstOf(s)})
                    BY <1>1, <5>1
                <5>3. G[s \ {FirstOf(s)}] = Step(s \ {FirstOf(s)})
                    BY <5>1
                <5> HIDE DEF G
                <5> QED
                    BY <4>2, <5>2, <5>3
            <4> QED
                BY <4>1, <4>2
        <3> QED
            BY <3>1 DEF Solves
    <2>3. Solves(CHOOSE g : Solves(g, f, T), f, T)
        BY <2>2
    <2>4. (CHOOSE g : Solves(g, f, T))[T] = G[T]
        <3> HIDE DEF G
        <3> QED
            BY <2>1, <2>2, <2>3, SolutionUnique
    <2>5. SumFunctionOnSet(f, T) = Step(T)
        BY <2>4, SumIsSolution
    <2> QED
        BY <2>5
<1>2. P = SUBSET S
    <2> HIDE DEF P
    <2>1. P \in SUBSET (SUBSET S)
        BY DEF P
    <2> QED
        BY <1>1, <2>1, PartInduction
<1> QED
    BY <1>2

-----------------------------------------------------------------------------

\* Nothing adds up to nothing.
LEMMA SumEmpty ==
    ASSUME NEW f
    PROVE  SumFunctionOnSet(f, {}) = 0
BY SumStep, FS_EmptySet

\* A sum of integers is an integer.
LEMMA SumIsInt ==
    ASSUME NEW S, IsFiniteSet(S), NEW f, \A x \in S : f[x] \in Int
    PROVE  SumFunctionOnSet(f, S) \in Int
<1> DEFINE P == {T \in SUBSET S : SumFunctionOnSet(f, T) \in Int}
<1>1. ASSUME NEW T \in SUBSET S, \A U \in SUBSET T : U # T => U \in P
      PROVE  T \in P
    <2>1. IsFiniteSet(T)
        BY FS_Subset
    <2>2. CASE T = {}
        BY <2>2, SumEmpty
    <2>3. CASE T # {}
        <3>1. FirstOf(T) \in T
            BY <2>3, FirstIsThere
        <3>2. SumFunctionOnSet(f, T \ {FirstOf(T)}) \in Int
            BY <1>1, <3>1
        <3> QED
            BY <2>1, <2>3, <3>1, <3>2, SumStep
    <2> QED
        BY <2>2, <2>3
<1>2. P = SUBSET S
    <2> HIDE DEF P
    <2>1. P \in SUBSET (SUBSET S)
        BY DEF P
    <2> QED
        BY <1>1, <2>1, PartInduction
<1> QED
    BY <1>2

\* A sum of naturals is a natural.
LEMMA SumIsNat ==
    ASSUME NEW S, IsFiniteSet(S), NEW f, \A x \in S : f[x] \in Nat
    PROVE  SumFunctionOnSet(f, S) \in Nat
<1> DEFINE P == {T \in SUBSET S : SumFunctionOnSet(f, T) \in Nat}
<1>1. ASSUME NEW T \in SUBSET S, \A U \in SUBSET T : U # T => U \in P
      PROVE  T \in P
    <2>1. IsFiniteSet(T)
        BY FS_Subset
    <2>2. CASE T = {}
        BY <2>2, SumEmpty
    <2>3. CASE T # {}
        <3>1. FirstOf(T) \in T
            BY <2>3, FirstIsThere
        <3>2. SumFunctionOnSet(f, T \ {FirstOf(T)}) \in Nat
            BY <1>1, <3>1
        <3> QED
            BY <2>1, <2>3, <3>1, <3>2, SumStep
    <2> QED
        BY <2>2, <2>3
<1>2. P = SUBSET S
    <2> HIDE DEF P
    <2>1. P \in SUBSET (SUBSET S)
        BY DEF P
    <2> QED
        BY <1>1, <2>1, PartInduction
<1> QED
    BY <1>2

\* Only what is summed matters.
LEMMA SumSame ==
    ASSUME NEW S, IsFiniteSet(S), NEW f, NEW g, \A x \in S : f[x] = g[x]
    PROVE  SumFunctionOnSet(f, S) = SumFunctionOnSet(g, S)
<1> DEFINE P == {T \in SUBSET S : SumFunctionOnSet(f, T) = SumFunctionOnSet(g, T)}
<1>1. ASSUME NEW T \in SUBSET S, \A U \in SUBSET T : U # T => U \in P
      PROVE  T \in P
    <2>1. IsFiniteSet(T)
        BY FS_Subset
    <2>2. CASE T = {}
        BY <2>2, SumEmpty
    <2>3. CASE T # {}
        <3>1. FirstOf(T) \in T
            BY <2>3, FirstIsThere
        <3>2. SumFunctionOnSet(f, T \ {FirstOf(T)}) = SumFunctionOnSet(g, T \ {FirstOf(T)})
            BY <1>1, <3>1
        <3>3. f[FirstOf(T)] = g[FirstOf(T)]
            BY <3>1
        <3>4. /\ SumFunctionOnSet(f, T) = f[FirstOf(T)] + SumFunctionOnSet(f, T \ {FirstOf(T)})
              /\ SumFunctionOnSet(g, T) = g[FirstOf(T)] + SumFunctionOnSet(g, T \ {FirstOf(T)})
            BY <2>1, <2>3, SumStep
        <3> QED
            BY <3>2, <3>3, <3>4
    <2> QED
        BY <2>2, <2>3
<1>2. P = SUBSET S
    <2> HIDE DEF P
    <2>1. P \in SUBSET (SUBSET S)
        BY DEF P
    <2> QED
        BY <1>1, <2>1, PartInduction
<1> QED
    BY <1>2

\* The order does not matter: any element may be taken first.
LEMMA SumTake ==
    ASSUME NEW S, IsFiniteSet(S), NEW f, \A x \in S : f[x] \in Int, NEW a \in S
    PROVE  SumFunctionOnSet(f, S) = f[a] + SumFunctionOnSet(f, S \ {a})
<1> DEFINE P == {T \in SUBSET S : \A x \in T :
                    SumFunctionOnSet(f, T) = f[x] + SumFunctionOnSet(f, T \ {x})}
<1>1. ASSUME NEW T \in SUBSET S, \A U \in SUBSET T : U # T => U \in P
      PROVE  T \in P
    <2> SUFFICES ASSUME NEW x \in T
                 PROVE  SumFunctionOnSet(f, T) = f[x] + SumFunctionOnSet(f, T \ {x})
        OBVIOUS
    <2> DEFINE t == FirstOf(T)
    <2>1. IsFiniteSet(T) /\ t \in T
        BY FS_Subset, FirstIsThere
    <2>2. SumFunctionOnSet(f, T) = f[t] + SumFunctionOnSet(f, T \ {t})
        BY <2>1, SumStep
    <2>3. CASE x = t
        BY <2>2, <2>3
    <2>4. CASE x # t
        <3>1. T \ {t} \in P /\ T \ {x} \in P
            BY <1>1, <2>1
        <3>2. SumFunctionOnSet(f, T \ {t}) = f[x] + SumFunctionOnSet(f, (T \ {t}) \ {x})
            BY <2>4, <3>1
        <3>3. SumFunctionOnSet(f, T \ {x}) = f[t] + SumFunctionOnSet(f, (T \ {x}) \ {t})
            BY <2>1, <2>4, <3>1
        <3>4. SumFunctionOnSet(f, (T \ {t}) \ {x}) = SumFunctionOnSet(f, (T \ {x}) \ {t})
            <4>1. (T \ {t}) \ {x} = (T \ {x}) \ {t}
                OBVIOUS
            <4> QED
                BY <4>1, Zenon
        <3>5. SumFunctionOnSet(f, (T \ {x}) \ {t}) \in Int
            <4>1. IsFiniteSet((T \ {x}) \ {t})
                BY <2>1, FS_Subset
            <4> QED
                BY <4>1, SumIsInt
        <3>6. f[t] \in Int /\ f[x] \in Int
            BY <2>1
        <3> HIDE DEF t, P
        <3> QED
            BY <2>2, <3>2, <3>3, <3>4, <3>5, <3>6
    <2> QED
        BY <2>3, <2>4
<1>2. P = SUBSET S
    <2> HIDE DEF P
    <2>1. P \in SUBSET (SUBSET S)
        BY DEF P
    <2> QED
        BY <1>1, <2>1, PartInduction
<1> QED
    BY <1>2

\* One more element adds what it counts.
LEMMA SumAdd ==
    ASSUME NEW S, IsFiniteSet(S), NEW a, a \notin S, NEW f, \A x \in S \cup {a} : f[x] \in Int
    PROVE  SumFunctionOnSet(f, S \cup {a}) = SumFunctionOnSet(f, S) + f[a]
<1>1. IsFiniteSet(S \cup {a})
    BY FS_AddElement
<1>2. SumFunctionOnSet(f, S \cup {a}) = f[a] + SumFunctionOnSet(f, (S \cup {a}) \ {a})
    BY <1>1, SumTake
<1>3. SumFunctionOnSet(f, (S \cup {a}) \ {a}) = SumFunctionOnSet(f, S)
    <2>1. (S \cup {a}) \ {a} = S
        OBVIOUS
    <2> QED
        BY <2>1, Zenon
<1>4. SumFunctionOnSet(f, S) \in Int /\ f[a] \in Int
    BY SumIsInt
<1> QED
    BY <1>2, <1>3, <1>4

\* The sum of sums.
LEMMA SumPlus ==
    ASSUME NEW S, IsFiniteSet(S), NEW f, NEW g, NEW h,
           \A x \in S : f[x] \in Int /\ g[x] \in Int /\ h[x] = f[x] + g[x]
    PROVE  SumFunctionOnSet(h, S) = SumFunctionOnSet(f, S) + SumFunctionOnSet(g, S)
<1> DEFINE P == {T \in SUBSET S :
                    SumFunctionOnSet(h, T) = SumFunctionOnSet(f, T) + SumFunctionOnSet(g, T)}
<1>1. ASSUME NEW T \in SUBSET S, \A U \in SUBSET T : U # T => U \in P
      PROVE  T \in P
    <2>1. IsFiniteSet(T)
        BY FS_Subset
    <2>2. CASE T = {}
        BY <2>2, SumEmpty
    <2>3. CASE T # {}
        <3> DEFINE t == FirstOf(T)
                   R == T \ {t}
        <3>1. t \in T /\ R \in SUBSET T /\ R # T
            BY <2>3, FirstIsThere
        <3>2. SumFunctionOnSet(h, R) = SumFunctionOnSet(f, R) + SumFunctionOnSet(g, R)
            BY <1>1, <3>1
        <3>3. /\ SumFunctionOnSet(f, T) = f[t] + SumFunctionOnSet(f, R)
              /\ SumFunctionOnSet(g, T) = g[t] + SumFunctionOnSet(g, R)
              /\ SumFunctionOnSet(h, T) = h[t] + SumFunctionOnSet(h, R)
            BY <2>1, <2>3, SumStep
        <3>4. f[t] \in Int /\ g[t] \in Int /\ h[t] = f[t] + g[t]
            BY <3>1
        <3>5. SumFunctionOnSet(f, R) \in Int /\ SumFunctionOnSet(g, R) \in Int
            <4>1. IsFiniteSet(R) /\ \A x \in R : f[x] \in Int /\ g[x] \in Int
                BY <2>1, <3>1, FS_Subset
            <4> HIDE DEF R
            <4> QED
                BY <4>1, SumIsInt
        <3> HIDE DEF t, R, P
        <3>6. SumFunctionOnSet(h, T) = SumFunctionOnSet(f, T) + SumFunctionOnSet(g, T)
            BY <3>2, <3>3, <3>4, <3>5
        <3> QED
            BY <3>6 DEF P
    <2> QED
        BY <2>2, <2>3
<1>2. P = SUBSET S
    <2> HIDE DEF P
    <2>1. P \in SUBSET (SUBSET S)
        BY DEF P
    <2> QED
        BY <1>1, <2>1, PartInduction
<1> QED
    BY <1>2

\* Zeros add up to zero.
LEMMA SumZero ==
    ASSUME NEW S, IsFiniteSet(S), NEW f, \A x \in S : f[x] = 0
    PROVE  SumFunctionOnSet(f, S) = 0
<1>1. SumFunctionOnSet(f, S) = SumFunctionOnSet(f, S) + SumFunctionOnSet(f, S)
    <2>1. \A x \in S : f[x] \in Int /\ f[x] = f[x] + f[x]
        OBVIOUS
    <2> QED
        BY <2>1, SumPlus
<1>2. SumFunctionOnSet(f, S) \in Int
    <2>1. \A x \in S : f[x] \in Int
        OBVIOUS
    <2> QED
        BY <2>1, SumIsInt
<1>3. \A n \in Int : n = n + n => n = 0
    OBVIOUS
<1> QED
    BY <1>1, <1>2, <1>3

\* One element among zeros is the sum.
LEMMA SumOne ==
    ASSUME NEW S, IsFiniteSet(S), NEW f, NEW a \in S, f[a] \in Int,
           \A x \in S \ {a} : f[x] = 0
    PROVE  SumFunctionOnSet(f, S) = f[a]
<1>1. SumFunctionOnSet(f, S) = f[a] + SumFunctionOnSet(f, S \ {a})
    <2>1. \A x \in S : f[x] \in Int
        OBVIOUS
    <2> QED
        BY <2>1, SumTake
<1>2. SumFunctionOnSet(f, S \ {a}) = 0
    <2>1. IsFiniteSet(S \ {a})
        BY FS_RemoveElement
    <2> QED
        BY <2>1, SumZero
<1> QED
    BY <1>1, <1>2

\* A change of one element changes the sum by as much.
LEMMA SumChange ==
    ASSUME NEW S, IsFiniteSet(S), NEW a \in S, NEW f, NEW g,
           \A x \in S : f[x] \in Int /\ g[x] \in Int,
           \A x \in S \ {a} : g[x] = f[x]
    PROVE  SumFunctionOnSet(g, S) = SumFunctionOnSet(f, S) + g[a] - f[a]
<1>1. IsFiniteSet(S \ {a})
    BY FS_RemoveElement
<1>2. SumFunctionOnSet(f, S) = f[a] + SumFunctionOnSet(f, S \ {a})
    BY SumTake
<1>3. SumFunctionOnSet(g, S) = g[a] + SumFunctionOnSet(g, S \ {a})
    BY SumTake
<1>4. SumFunctionOnSet(g, S \ {a}) = SumFunctionOnSet(f, S \ {a})
    BY <1>1, SumSame
<1>5. SumFunctionOnSet(f, S \ {a}) \in Int
    BY <1>1, SumIsInt
<1> QED
    BY <1>2, <1>3, <1>4, <1>5

\* The sum over two disjoint sets.
LEMMA SumUnion ==
    ASSUME NEW S, IsFiniteSet(S), NEW T, IsFiniteSet(T), S \cap T = {},
           NEW f, \A x \in S \cup T : f[x] \in Int
    PROVE  SumFunctionOnSet(f, S \cup T) = SumFunctionOnSet(f, S) + SumFunctionOnSet(f, T)
<1> DEFINE P == {U \in SUBSET T :
                    SumFunctionOnSet(f, S \cup U) = SumFunctionOnSet(f, S) + SumFunctionOnSet(f, U)}
<1>0. SumFunctionOnSet(f, S) \in Int
    BY SumIsInt
<1>1. ASSUME NEW V \in SUBSET T, \A U \in SUBSET V : U # V => U \in P
      PROVE  V \in P
    <2>1. IsFiniteSet(V)
        BY FS_Subset
    <2>2. CASE V = {}
        <3>1. SumFunctionOnSet(f, S \cup V) = SumFunctionOnSet(f, S)
            <4>1. S \cup V = S
                BY <2>2
            <4> QED
                BY <4>1, Zenon
        <3>2. SumFunctionOnSet(f, V) = 0
            BY <2>2, SumEmpty
        <3> QED
            BY <1>0, <3>1, <3>2
    <2>3. CASE V # {}
        <3>1. PICK v \in V : TRUE
            BY <2>3
        <3> DEFINE R == V \ {v}
        <3>2. R \in SUBSET V /\ R # V /\ IsFiniteSet(R)
            BY <2>1, FS_Subset
        <3>3. SumFunctionOnSet(f, S \cup R) = SumFunctionOnSet(f, S) + SumFunctionOnSet(f, R)
            BY <1>1, <3>2
        <3>4. SumFunctionOnSet(f, V) = f[v] + SumFunctionOnSet(f, R)
            BY <2>1, SumTake
        <3>5. SumFunctionOnSet(f, S \cup V) = f[v] + SumFunctionOnSet(f, S \cup R)
            <4>1. IsFiniteSet(S \cup V) /\ v \in S \cup V /\ \A x \in S \cup V : f[x] \in Int
                BY <2>1, FS_Union
            <4>2. SumFunctionOnSet(f, S \cup V) = f[v] + SumFunctionOnSet(f, (S \cup V) \ {v})
                BY <4>1, SumTake
            <4>3. (S \cup V) \ {v} = S \cup R
                OBVIOUS
            <4>4. SumFunctionOnSet(f, (S \cup V) \ {v}) = SumFunctionOnSet(f, S \cup R)
                BY <4>3, Zenon
            <4> QED
                BY <4>2, <4>4
        <3>6. SumFunctionOnSet(f, R) \in Int /\ f[v] \in Int
            <4>1. \A x \in R : f[x] \in Int
                OBVIOUS
            <4> HIDE DEF R
            <4> QED
                BY <3>2, <4>1, SumIsInt
        <3>7. SumFunctionOnSet(f, S \cup V) = SumFunctionOnSet(f, S) + SumFunctionOnSet(f, V)
            <4> HIDE DEF R, P
            <4> QED
                BY <1>0, <3>3, <3>4, <3>5, <3>6
        <3> QED
            BY <3>7
    <2> QED
        BY <2>2, <2>3
<1>2. P = SUBSET T
    <2> HIDE DEF P
    <2>1. P \in SUBSET (SUBSET T)
        BY DEF P
    <2> QED
        BY <1>1, <2>1, PartInduction
<1> QED
    BY <1>2

\* A sum of two parts, each of them written with a function of its own.
LEMMA SumParts ==
    ASSUME NEW S, IsFiniteSet(S), NEW T, IsFiniteSet(T), S \cap T = {},
           NEW f, NEW g, NEW h, \A x \in S \cup T : h[x] \in Int,
           \A x \in S : f[x] = h[x], \A x \in T : g[x] = h[x]
    PROVE  SumFunctionOnSet(h, S \cup T) = SumFunctionOnSet(f, S) + SumFunctionOnSet(g, T)
<1>1. SumFunctionOnSet(h, S \cup T) = SumFunctionOnSet(h, S) + SumFunctionOnSet(h, T)
    BY SumUnion
<1>2. SumFunctionOnSet(f, S) = SumFunctionOnSet(h, S)
    BY SumSame
<1>3. SumFunctionOnSet(g, T) = SumFunctionOnSet(h, T)
    BY SumSame
<1> QED
    BY <1>1, <1>2, <1>3

\* A sum may be taken class by class.
LEMMA SumByClass ==
    ASSUME NEW S, IsFiniteSet(S), NEW C, IsFiniteSet(C), NEW class,
           \A x \in S : class[x] \in C,
           NEW f, \A x \in S : f[x] \in Int
    PROVE  SumFunctionOnSet([c \in C |-> SumFunctionOnSet(f, {x \in S : class[x] = c})], C)
             = SumFunctionOnSet(f, S)
<1> DEFINE Part(T, c) == {x \in T : class[x] = c}
           By(T) == [c \in C |-> SumFunctionOnSet(f, Part(T, c))]
           P == {T \in SUBSET S : SumFunctionOnSet(By(T), C) = SumFunctionOnSet(f, T)}
<1>1. ASSUME NEW T \in SUBSET S, \A U \in SUBSET T : U # T => U \in P
      PROVE  T \in P
    <2>1. IsFiniteSet(T)
        BY FS_Subset
    <2>2. CASE T = {}
        <3>1. \A c \in C : By(T)[c] = 0
            <4>1. \A c \in C : Part(T, c) = {}
                BY <2>2
            <4> HIDE DEF Part
            <4> QED
                BY <4>1, SumEmpty
        <3>2. SumFunctionOnSet(By(T), C) = 0
            <4> HIDE DEF By
            <4> QED
                BY <3>1, SumZero
        <3> QED
            BY <2>2, <3>2, SumEmpty
    <2>3. CASE T # {}
        <3>1. PICK t \in T : TRUE
            BY <2>3
        <3> DEFINE R == T \ {t}
                   D == [c \in C |-> IF c = class[t] THEN f[t] ELSE 0]
        <3>2. R \in SUBSET T /\ R # T /\ IsFiniteSet(R)
            BY <2>1, FS_Subset
        <3>3. SumFunctionOnSet(By(R), C) = SumFunctionOnSet(f, R)
            BY <1>1, <3>2
        <3>4. SumFunctionOnSet(f, T) = f[t] + SumFunctionOnSet(f, R)
            BY <2>1, SumTake
        <3>5. ASSUME NEW c \in C
              PROVE  /\ By(R)[c] \in Int /\ D[c] \in Int
                     /\ By(T)[c] = By(R)[c] + D[c]
            <4>1. IsFiniteSet(Part(R, c)) /\ \A x \in Part(R, c) : f[x] \in Int
                BY <3>2, FS_Subset
            <4>2. SumFunctionOnSet(f, Part(R, c)) \in Int
                <5> HIDE DEF Part
                <5> QED
                    BY <4>1, SumIsInt
            <4>3. CASE c = class[t]
                <5>1. Part(T, c) = Part(R, c) \cup {t} /\ t \notin Part(R, c)
                    BY <4>3
                <5>2. SumFunctionOnSet(f, Part(R, c) \cup {t}) = SumFunctionOnSet(f, Part(R, c)) + f[t]
                    <6>1. \A x \in Part(R, c) \cup {t} : f[x] \in Int
                        OBVIOUS
                    <6> HIDE DEF Part
                    <6> QED
                        BY <4>1, <5>1, <6>1, SumAdd
                <5>3. SumFunctionOnSet(f, Part(T, c)) = SumFunctionOnSet(f, Part(R, c) \cup {t})
                    BY <5>1, Zenon
                <5>4. f[t] \in Int
                    OBVIOUS
                <5> HIDE DEF Part
                <5> QED
                    BY <4>2, <4>3, <5>2, <5>3, <5>4
            <4>4. CASE c # class[t]
                <5>1. Part(T, c) = Part(R, c)
                    BY <4>4
                <5>2. SumFunctionOnSet(f, Part(T, c)) = SumFunctionOnSet(f, Part(R, c))
                    BY <5>1, Zenon
                <5> HIDE DEF Part
                <5> QED
                    BY <4>2, <4>4, <5>2
            <4> QED
                BY <4>3, <4>4
        <3>6. SumFunctionOnSet(By(T), C) = SumFunctionOnSet(By(R), C) + SumFunctionOnSet(D, C)
            <4> HIDE DEF By, D, R
            <4> QED
                BY <3>5, SumPlus
        <3>7. SumFunctionOnSet(D, C) = f[t] /\ f[t] \in Int
            <4>1. class[t] \in C /\ f[t] \in Int
                OBVIOUS
            <4>2. D[class[t]] = f[t] /\ \A c \in C \ {class[t]} : D[c] = 0
                BY <4>1
            <4> HIDE DEF D
            <4> QED
                BY <4>1, <4>2, SumOne
        <3>8. SumFunctionOnSet(f, R) \in Int
            <4>1. \A x \in R : f[x] \in Int
                OBVIOUS
            <4> HIDE DEF R
            <4> QED
                BY <3>2, <4>1, SumIsInt
        <3>9. SumFunctionOnSet(By(T), C) = SumFunctionOnSet(f, T)
            <4> HIDE DEF By, D, R
            <4> QED
                BY <3>3, <3>4, <3>6, <3>7, <3>8
        <3> HIDE DEF By
        <3> QED
            BY <3>9
    <2> QED
        BY <2>2, <2>3
<1>2. P = SUBSET S
    <2> HIDE DEF P
    <2>1. P \in SUBSET (SUBSET S)
        BY DEF P
    <2> QED
        BY <1>1, <2>1, PartInduction
<1> QED
    BY <1>2

=============================================================================
