---------------------------- MODULE SumTheorems ----------------------------
(***************************************************************************)
(* What the proofs about money and tables use of finite sets: sums over    *)
(* them, sizes of unions, least numbers.                                   *)
(*                                                                         *)
(* Induction on a set is done by its least counterexample: of a non-empty  *)
(* set of subsets of a finite set one has no other of them inside.         *)
(***************************************************************************)
EXTENDS Sums, FiniteSetTheorems, WellFoundedInduction, TLAPS

\* A smallest set among subsets of a finite set.
LEMMA LeastSubset ==
    ASSUME NEW S, IsFiniteSet(S), NEW B, B \subseteq SUBSET S, B # {}
    PROVE  \E T \in B : IsFiniteSet(T) /\ \A U \in B : U \subseteq T => U = T
<1>1. IsWellFoundedOn(StrictSubsetOrdering(S), SUBSET S)
  BY FS_StrictSubsetOrderingWellFounded, FS_FiniteSubsetsOfFinite
<1>2. PICK T \in B : \A U \in B : <<U, T>> \notin StrictSubsetOrdering(S)
  <2> HIDE DEF StrictSubsetOrdering
  <2> QED
    BY <1>1, WFMin, Zenon
<1>3. \A U \in B : U \subseteq T => U = T
  <2>1. \A U \in B : U \in SUBSET S
    OBVIOUS
  <2> QED
    BY <1>2, <2>1 DEF StrictSubsetOrdering
<1>4. IsFiniteSet(T)
  BY FS_Subset
<1> QED
  BY <1>3, <1>4

\* Induction on a finite set, with the set G of those for which the claim holds.
LEMMA SetInduction ==
    ASSUME NEW S, IsFiniteSet(S), NEW G, {} \in G,
           \A T \in SUBSET S : IsFiniteSet(T) /\ T # {} /\ (\A x \in T : T \ {x} \in G) => T \in G
    PROVE  S \in G
<1> DEFINE bad == {T \in SUBSET S : T \notin G}
<1> SUFFICES ASSUME S \notin G PROVE FALSE
  OBVIOUS
<1>0. S \in bad
  OBVIOUS
<1>1. PICK T \in bad : IsFiniteSet(T) /\ \A U \in bad : U \subseteq T => U = T
  <2>1. bad \subseteq SUBSET S
    OBVIOUS
  <2> HIDE DEF bad
  <2> QED
    BY <1>0, <2>1, LeastSubset
<1>2. \A x \in T : T \ {x} \in G
  BY <1>1
<1> QED
  BY <1>1, <1>2

\* The element MapThenFoldSet takes next.
First(s) == CHOOSE x \in s : TRUE

\* It is one of them.
LEMMA FirstIsElement == ASSUME NEW s, s # {} PROVE First(s) \in s
BY DEF First

\* g is the function of the subsets of S that MapThenFoldSet builds.
SumsUp(g, S, f) ==
    g = [s \in SUBSET S |-> IF s = {} THEN 0 ELSE f[First(s)] + g[s \ {First(s)}]]

\* The one chosen by the recursive definition in MapThenFoldSet.
Parts(S, f) == CHOOSE g : SumsUp(g, S, f)

\* SumOver, through the fold of the library, is the value of that function for the whole set.
LEMMA SumIsParts == ASSUME NEW S, NEW f PROVE SumOver(S, f) = Parts(S, f)[S]
BY DEF SumOver, MapThenSumSet, MapThenFoldSet, Parts, SumsUp, First

\* What is added up for a set does not depend on the set it is a part of.
LEMMA SumsAgree ==
    ASSUME NEW f, NEW S, NEW T, IsFiniteSet(S), NEW g, NEW h, SumsUp(g, S, f), SumsUp(h, T, f)
    PROVE  \A s \in SUBSET S : s \subseteq T => g[s] = h[s]
<1> DEFINE bad == {s \in SUBSET S : s \subseteq T /\ g[s] # h[s]}
<1> SUFFICES ASSUME bad # {} PROVE FALSE
  OBVIOUS
<1>1. PICK s \in bad : \A u \in bad : u \subseteq s => u = s
  <2>1. bad \subseteq SUBSET S
    OBVIOUS
  <2> HIDE DEF bad
  <2> QED
    BY <2>1, LeastSubset
<1>2. CASE s = {}
  BY <1>2 DEF SumsUp
<1>3. CASE s # {}
  <2> DEFINE x == First(s)
  <2>1. x \in s
    BY <1>3, FirstIsElement
  <2>2. s \ {x} \in SUBSET S /\ s \ {x} \subseteq T /\ g[s \ {x}] = h[s \ {x}]
    BY <1>1, <2>1
  <2>3. g[s] = f[x] + g[s \ {x}] /\ h[s] = f[x] + h[s \ {x}]
    BY <1>3 DEF SumsUp
  <2> QED
    BY <2>2, <2>3
<1> QED
  BY <1>2, <1>3

\* The recursion has a solution: put together from those for the smaller sets.
LEMMA SumsExist ==
    ASSUME NEW f, NEW S, IsFiniteSet(S)
    PROVE  SumsUp(Parts(S, f), S, f)
<1> DEFINE bad == {T \in SUBSET S : ~\E g : SumsUp(g, T, f)}
<1> SUFFICES ASSUME bad # {} PROVE FALSE
  <2>1. S \notin bad
    OBVIOUS
  <2>2. \E g : SumsUp(g, S, f)
    BY <2>1
  <2> QED
    BY <2>2 DEF Parts
<1>1. PICK T \in bad : IsFiniteSet(T) /\ \A U \in bad : U \subseteq T => U = T
  <2>1. bad \subseteq SUBSET S
    OBVIOUS
  <2> HIDE DEF bad
  <2> QED
    BY <2>1, LeastSubset
<1>2. \A U \in SUBSET T : U # T => SumsUp(Parts(U, f), U, f) /\ IsFiniteSet(U)
  <2> SUFFICES ASSUME NEW U \in SUBSET T, U # T PROVE SumsUp(Parts(U, f), U, f) /\ IsFiniteSet(U)
    OBVIOUS
  <2>1. \E g : SumsUp(g, U, f)
    BY <1>1
  <2> QED
    BY <2>1, <1>1, FS_Subset DEF Parts
<1> DEFINE below(s) == Parts(s \ {First(s)}, f)[s \ {First(s)}]
           h == [s \in SUBSET T |-> IF s = {} THEN 0 ELSE f[First(s)] + below(s)]
<1>3. ASSUME NEW s \in SUBSET T, s # {}
      PROVE  below(s) = h[s \ {First(s)}]
  <2> DEFINE u == s \ {First(s)}
  <2>1. First(s) \in s
    BY <1>3, FirstIsElement
  <2>2. u \in SUBSET T /\ u # T
    BY <2>1
  <2>3. SumsUp(Parts(u, f), u, f) /\ IsFiniteSet(u)
    BY <1>2, <2>2
  <2>4. CASE u = {}
    <3>1. Parts(u, f)[u] = 0
      BY <2>3, <2>4 DEF SumsUp
    <3> QED
      BY <2>2, <2>4, <3>1
  <2>5. CASE u # {}
    <3> DEFINE v == u \ {First(u)}
    <3>1. First(u) \in u
      BY <2>5, FirstIsElement
    <3>2. v \in SUBSET T /\ v # T /\ v \subseteq u
      BY <3>1, <2>2
    <3>3. SumsUp(Parts(v, f), v, f) /\ IsFiniteSet(v)
      BY <1>2, <3>2
    <3>4. Parts(v, f)[v] = Parts(u, f)[v]
      <4> HIDE DEF u, v
      <4> QED
        BY <2>3, <3>2, <3>3, SumsAgree
    <3>5. Parts(u, f)[u] = f[First(u)] + Parts(u, f)[v]
      BY <2>3, <2>5 DEF SumsUp
    <3>6. h[u] = f[First(u)] + Parts(v, f)[v]
      BY <2>2, <2>5
    <3> HIDE DEF h, v
    <3> QED
      BY <3>4, <3>5, <3>6
  <2> QED
    BY <2>4, <2>5
<1>4. SumsUp(h, T, f)
  <2> HIDE DEF below
  <2>1. h = [s \in SUBSET T |-> IF s = {} THEN 0 ELSE f[First(s)] + h[s \ {First(s)}]]
    BY <1>3
  <2> QED
    BY <2>1 DEF SumsUp
<1> QED
  BY <1>1, <1>4

-----------------------------------------------------------------------------
(***************************************************************************)
(* Sums, one element at a time.                                            *)
(***************************************************************************)
\* Nothing adds up to nothing.
LEMMA SumOfNone == ASSUME NEW f PROVE SumOver({}, f) = 0
<1>1. SumsUp(Parts({}, f), {}, f)
  BY SumsExist, FS_EmptySet
<1>2. Parts({}, f)[{}] = 0
  BY <1>1 DEF SumsUp
<1> QED
  BY <1>2, SumIsParts

\* The equation of the recursion.
LEMMA SumOfSome ==
    ASSUME NEW f, NEW S, IsFiniteSet(S), S # {}
    PROVE  /\ First(S) \in S /\ IsFiniteSet(S \ {First(S)})
           /\ SumOver(S, f) = f[First(S)] + SumOver(S \ {First(S)}, f)
<1>1. PICK T : T = S \ {First(S)}
  OBVIOUS
<1>2. T \subseteq S /\ T \in SUBSET S /\ T \in SUBSET T /\ First(S) \in S
  BY <1>1, FirstIsElement
<1>3. IsFiniteSet(T)
  BY <1>2, FS_Subset
<1>4. PICK g : g = Parts(S, f) /\ SumsUp(g, S, f)
  BY SumsExist
<1>5. PICK h : h = Parts(T, f) /\ SumsUp(h, T, f)
  BY <1>3, SumsExist
<1>6. g[S] = f[First(S)] + g[T]
  BY <1>1, <1>4 DEF SumsUp
<1>7. h[T] = g[T]
  BY <1>2, <1>3, <1>4, <1>5, SumsAgree
<1>8. SumOver(S, f) = g[S] /\ SumOver(T, f) = h[T]
  BY <1>4, <1>5, SumIsParts
<1> QED
  BY <1>1, <1>2, <1>3, <1>6, <1>7, <1>8

\* A sum of integers is one.
LEMMA SumType ==
    ASSUME NEW f, NEW S, IsFiniteSet(S), \A i \in S : f[i] \in Int
    PROVE  SumOver(S, f) \in Int
<1> DEFINE G == {T \in SUBSET S : SumOver(T, f) \in Int}
<1>1. {} \in G
  BY SumOfNone
<1>2. ASSUME NEW T \in SUBSET S, IsFiniteSet(T), T # {}, \A x \in T : T \ {x} \in G
      PROVE  T \in G
  <2>1. /\ First(T) \in T /\ SumOver(T \ {First(T)}, f) \in Int
        /\ SumOver(T, f) = f[First(T)] + SumOver(T \ {First(T)}, f)
    BY <1>2, SumOfSome
  <2>2. SumOver(T, f) \in Int
    BY <2>1
  <2> QED
    BY <2>2
<1> HIDE DEF G
<1>3. S \in G
  BY <1>1, <1>2, SetInduction
<1> QED
  BY <1>3 DEF G

\* The order does not matter: any element may be the first.
LEMMA SumTake ==
    ASSUME NEW f, NEW S, IsFiniteSet(S), \A i \in S : f[i] \in Int, NEW x \in S
    PROVE  SumOver(S, f) = f[x] + SumOver(S \ {x}, f)
<1> DEFINE G == {T \in SUBSET S : \A y \in T : SumOver(T, f) = f[y] + SumOver(T \ {y}, f)}
<1>1. {} \in G
  OBVIOUS
<1>2. ASSUME NEW T \in SUBSET S, IsFiniteSet(T), T # {}, \A y \in T : T \ {y} \in G,
             NEW y \in T
      PROVE  SumOver(T, f) = f[y] + SumOver(T \ {y}, f)
  <2>1. PICK z \in T : SumOver(T, f) = f[z] + SumOver(T \ {z}, f)
    BY <1>2, SumOfSome
  <2>2. CASE z # y
    <3>1. SumOver(T \ {z}, f) = f[y] + SumOver((T \ {z}) \ {y}, f)
      BY <1>2, <2>2
    <3>2. SumOver(T \ {y}, f) = f[z] + SumOver((T \ {y}) \ {z}, f)
      BY <1>2, <2>2
    <3>3. PICK U : U = (T \ {z}) \ {y} /\ U = (T \ {y}) \ {z}
      OBVIOUS
    <3>4. IsFiniteSet(U) /\ U \subseteq S
      BY <1>2, <3>3, FS_Subset
    <3>5. SumOver(U, f) \in Int /\ f[y] \in Int /\ f[z] \in Int
      BY <3>4, SumType
    <3>6. PICK rest \in Int : rest = SumOver(U, f)
      BY <3>5
    <3>7. SumOver(T, f) = f[z] + (f[y] + rest) /\ SumOver(T \ {y}, f) = f[z] + rest
      BY <2>1, <3>1, <3>2, <3>3, <3>6
    <3> HIDE DEF G
    <3> QED
      BY <3>5, <3>7
  <2> QED
    BY <2>1, <2>2
<1>3. \A T \in SUBSET S : IsFiniteSet(T) /\ T # {} /\ (\A y \in T : T \ {y} \in G) => T \in G
  BY <1>2
<1> HIDE DEF G
<1>4. S \in G
  BY <1>1, <1>3, SetInduction
<1> QED
  BY <1>4 DEF G

\* Only the values for elements of the set count.
LEMMA SumSame ==
    ASSUME NEW S, IsFiniteSet(S), NEW f, NEW g, \A i \in S : f[i] = g[i]
    PROVE  SumOver(S, f) = SumOver(S, g)
<1> DEFINE G == {T \in SUBSET S : SumOver(T, f) = SumOver(T, g)}
<1>1. {} \in G
  BY SumOfNone
<1>2. ASSUME NEW T \in SUBSET S, IsFiniteSet(T), T # {}, \A x \in T : T \ {x} \in G
      PROVE  T \in G
  BY <1>2, SumOfSome
<1> HIDE DEF G
<1>3. S \in G
  BY <1>1, <1>2, SetInduction
<1> QED
  BY <1>3 DEF G

\* What one element changes by, the sum changes by.
LEMMA SumChange ==
    ASSUME NEW S, IsFiniteSet(S), NEW f, NEW g, NEW x \in S, \A i \in S : f[i] \in Int /\ g[i] \in Int,
           \A i \in S \ {x} : f[i] = g[i]
    PROVE  SumOver(S, g) = SumOver(S, f) + g[x] - f[x]
<1> DEFINE T == S \ {x}
<1>1. IsFiniteSet(T) /\ T \subseteq S
  BY FS_Subset
<1>2. SumOver(S, f) = f[x] + SumOver(T, f) /\ SumOver(S, g) = g[x] + SumOver(T, g)
  BY SumTake
<1>3. SumOver(T, f) = SumOver(T, g)
  BY <1>1, SumSame
<1>4. SumOver(T, f) \in Int
  BY <1>1, SumType
<1> QED
  BY <1>2, <1>3, <1>4

\* Larger summands, larger sum.
LEMMA SumOrder ==
    ASSUME NEW S, IsFiniteSet(S), NEW f, NEW g, \A i \in S : f[i] \in Int /\ g[i] \in Int /\ f[i] <= g[i]
    PROVE  SumOver(S, f) <= SumOver(S, g)
<1> DEFINE G == {T \in SUBSET S : SumOver(T, f) <= SumOver(T, g)}
<1>1. {} \in G
  BY SumOfNone
<1>2. ASSUME NEW T \in SUBSET S, IsFiniteSet(T), T # {}, \A x \in T : T \ {x} \in G
      PROVE  T \in G
  <2>1. PICK x \in T : x = First(T)
    BY <1>2, FirstIsElement
  <2>2. PICK U : U = T \ {x} /\ U \in G /\ IsFiniteSet(U)
    BY <1>2, <2>1, SumOfSome
  <2>3. SumOver(T, f) = f[x] + SumOver(U, f) /\ SumOver(T, g) = g[x] + SumOver(U, g)
    BY <1>2, <2>1, <2>2, SumOfSome
  <2>4. SumOver(U, f) \in Int /\ SumOver(U, g) \in Int
    BY <2>2, SumType
  <2> QED
    BY <2>2, <2>3, <2>4
<1> HIDE DEF G
<1>3. S \in G
  BY <1>1, <1>2, SetInduction
<1> QED
  BY <1>3 DEF G

\* Sums are added summand by summand.
LEMMA SumOfSums ==
    ASSUME NEW S, IsFiniteSet(S), NEW f, NEW g, NEW h,
           \A i \in S : f[i] \in Int /\ g[i] \in Int /\ h[i] = f[i] + g[i]
    PROVE  SumOver(S, h) = SumOver(S, f) + SumOver(S, g)
<1> DEFINE G == {T \in SUBSET S : SumOver(T, h) = SumOver(T, f) + SumOver(T, g)}
<1>1. {} \in G
  <2>1. SumOver({}, h) = 0 /\ SumOver({}, f) = 0 /\ SumOver({}, g) = 0
    BY SumOfNone
  <2> QED
    BY <2>1
<1>2. ASSUME NEW T \in SUBSET S, IsFiniteSet(T), T # {}, \A x \in T : T \ {x} \in G
      PROVE  T \in G
  <2>1. PICK x \in T : x = First(T)
    BY <1>2, FirstIsElement
  <2>2. PICK U : U = T \ {x} /\ U \in G /\ IsFiniteSet(U)
    BY <1>2, <2>1, SumOfSome
  <2>3. /\ SumOver(T, f) = f[x] + SumOver(U, f) /\ SumOver(T, g) = g[x] + SumOver(U, g)
        /\ SumOver(T, h) = h[x] + SumOver(U, h)
    BY <1>2, <2>1, <2>2, SumOfSome
  <2>4. SumOver(U, f) \in Int /\ SumOver(U, g) \in Int
    BY <2>2, SumType
  <2> QED
    BY <2>2, <2>3, <2>4
<1> HIDE DEF G
<1>3. S \in G
  BY <1>1, <1>2, SetInduction
<1> QED
  BY <1>3 DEF G

\* A common factor.
LEMMA SumOfProducts ==
    ASSUME NEW S, IsFiniteSet(S), NEW f, NEW h, NEW c \in Int,
           \A i \in S : f[i] \in Int /\ h[i] = c * f[i]
    PROVE  SumOver(S, h) = c * SumOver(S, f)
<1> DEFINE G == {T \in SUBSET S : SumOver(T, h) = c * SumOver(T, f)}
<1>1. {} \in G
  <2>1. SumOver({}, h) = 0 /\ SumOver({}, f) = 0 /\ c * 0 = 0
    BY SumOfNone
  <2> QED
    BY <2>1
<1>2. ASSUME NEW T \in SUBSET S, IsFiniteSet(T), T # {}, \A x \in T : T \ {x} \in G
      PROVE  T \in G
  <2>1. PICK x \in T : x = First(T)
    BY <1>2, FirstIsElement
  <2>2. PICK U : U = T \ {x} /\ U \in G /\ IsFiniteSet(U)
    BY <1>2, <2>1, SumOfSome
  <2>3. SumOver(T, f) = f[x] + SumOver(U, f) /\ SumOver(T, h) = h[x] + SumOver(U, h)
    BY <1>2, <2>1, <2>2, SumOfSome
  <2>4. SumOver(U, f) \in Int
    BY <2>2, SumType
  <2>5. c * (f[x] + SumOver(U, f)) = c * f[x] + c * SumOver(U, f)
    BY <2>4
  <2> QED
    BY <2>2, <2>3, <2>5
<1> HIDE DEF G
<1>3. S \in G
  BY <1>1, <1>2, SetInduction
<1> QED
  BY <1>3 DEF G

\* Counting: a one for each element of P.
LEMMA SumOfMarks ==
    ASSUME NEW S, IsFiniteSet(S), NEW P \in SUBSET S, NEW f,
           \A i \in S : f[i] = IF i \in P THEN 1 ELSE 0
    PROVE  SumOver(S, f) = Cardinality(P)
<1> DEFINE G == {T \in SUBSET S : SumOver(T, f) = Cardinality(T \cap P)}
<1>1. {} \in G
  <2>1. {} \cap P = {} /\ Cardinality({}) = 0
    BY FS_EmptySet
  <2> QED
    BY <2>1, SumOfNone
<1>2. ASSUME NEW T \in SUBSET S, IsFiniteSet(T), T # {}, \A x \in T : T \ {x} \in G
      PROVE  T \in G
  <2>1. PICK x \in T : x = First(T)
    BY <1>2, FirstIsElement
  <2>2. SumOver(T, f) = f[x] + SumOver(T \ {x}, f)
    BY <1>2, <2>1, SumOfSome
  <2>3. PICK U : U = T \cap P /\ IsFiniteSet(U)
    BY <1>2, FS_Subset, T \cap P \subseteq T
  <2>4. SumOver(T \ {x}, f) = Cardinality((T \ {x}) \cap P)
    BY <1>2
  <2>5. CASE x \in P
    <3>1. (T \ {x}) \cap P = U \ {x} /\ x \in U
      BY <2>3, <2>5
    <3>2. Cardinality(U \ {x}) = Cardinality(U) - 1 /\ Cardinality(U) \in Nat
      BY <2>3, <3>1, FS_RemoveElement, FS_CardinalityType
    <3>3. SumOver(T, f) = 1 + (Cardinality(U) - 1)
      BY <2>2, <2>4, <2>5, <3>1, <3>2
    <3>4. SumOver(T, f) = Cardinality(T \cap P)
      BY <2>3, <3>2, <3>3
    <3> QED
      BY <3>4
  <2>6. CASE x \notin P
    <3>1. (T \ {x}) \cap P = U
      BY <2>3, <2>6
    <3>2. Cardinality(U) \in Nat
      BY <2>3, FS_CardinalityType
    <3>3. SumOver(T, f) = 0 + Cardinality(U)
      BY <2>2, <2>4, <2>6, <3>1
    <3>4. SumOver(T, f) = Cardinality(T \cap P)
      BY <2>3, <3>2, <3>3
    <3> QED
      BY <3>4
  <2> QED
    BY <2>5, <2>6
<1> HIDE DEF G
<1>3. S \in G
  BY <1>1, <1>2, SetInduction
<1>4. S \cap P = P
  OBVIOUS
<1> QED
  BY <1>3, <1>4 DEF G

\* All summands the same.
LEMMA SumOfEquals ==
    ASSUME NEW S, IsFiniteSet(S), NEW f, NEW c \in Int, \A i \in S : f[i] = c
    PROVE  SumOver(S, f) = c * Cardinality(S)
<1> DEFINE one == [i \in S |-> 1]
<1>1. \A i \in S : one[i] \in Int /\ f[i] = c * one[i]
  OBVIOUS
<1>2. S \in SUBSET S /\ \A i \in S : one[i] = IF i \in S THEN 1 ELSE 0
  OBVIOUS
<1> HIDE DEF one
<1>3. SumOver(S, f) = c * SumOver(S, one)
  BY <1>1, SumOfProducts
<1>4. SumOver(S, one) = Cardinality(S)
  BY <1>2, SumOfMarks
<1> QED
  BY <1>3, <1>4

\* All elements of the sets f[i].
Joined(S, f) == UNION {f[i] : i \in S}

\* The sets f[i] together have no more elements than each for itself, and as many when no two of them share one.
LEMMA SizeOfUnion ==
    ASSUME NEW S, IsFiniteSet(S), NEW f, NEW g, \A i \in S : IsFiniteSet(f[i]) /\ g[i] = Cardinality(f[i])
    PROVE  /\ IsFiniteSet(Joined(S, f)) /\ Cardinality(Joined(S, f)) <= SumOver(S, g)
           /\ (\A i, j \in S : i # j => f[i] \cap f[j] = {}) => Cardinality(Joined(S, f)) = SumOver(S, g)
<1> DEFINE Apart == \A i, j \in S : i # j => f[i] \cap f[j] = {}
           G == {T \in SUBSET S : /\ IsFiniteSet(Joined(T, f)) /\ Cardinality(Joined(T, f)) <= SumOver(T, g)
                                  /\ Apart => Cardinality(Joined(T, f)) = SumOver(T, g)}
<1>1. {} \in G
  <2>1. Joined({}, f) = {}
    BY DEF Joined
  <2> QED
    BY <2>1, FS_EmptySet, SumOfNone
<1>2. ASSUME NEW T \in SUBSET S, IsFiniteSet(T), T # {}, \A x \in T : T \ {x} \in G
      PROVE  T \in G
  <2>1. PICK x \in T : x = First(T)
    BY <1>2, FirstIsElement
  <2>2. SumOver(T, g) = g[x] + SumOver(T \ {x}, g)
    BY <1>2, <2>1, SumOfSome
  <2>3. PICK A, B : A = f[x] /\ B = Joined(T \ {x}, f)
    OBVIOUS
  <2>4. Joined(T, f) = A \cup B
    BY <2>3 DEF Joined
  <2>5. IsFiniteSet(A) /\ g[x] = Cardinality(A) /\ Cardinality(A) \in Nat
    BY <2>3, FS_CardinalityType
  <2>6. /\ IsFiniteSet(B) /\ Cardinality(B) <= SumOver(T \ {x}, g)
        /\ Apart => Cardinality(B) = SumOver(T \ {x}, g)
    BY <1>2, <2>3
  <2>7. Cardinality(B) \in Nat
    BY <2>6, FS_CardinalityType
  <2>8. IsFiniteSet(A \cup B) /\ Cardinality(A \cup B) = Cardinality(A) + Cardinality(B) - Cardinality(A \cap B)
    BY <2>5, <2>6, FS_Union
  <2>9. Cardinality(A \cap B) \in Nat
    <3>1. IsFiniteSet(A \cap B)
      BY <2>5, FS_Subset, A \cap B \subseteq A
    <3> QED
      BY <3>1, FS_CardinalityType
  <2>10. Apart => Cardinality(A \cap B) = 0
    <3>1. Apart => A \cap B = {}
      BY <2>3 DEF Joined
    <3> QED
      BY <3>1, FS_EmptySet
  <2>11. SumOver(T \ {x}, g) \in Int
    <3>1. \A i \in T \ {x} : g[i] \in Int
      BY FS_CardinalityType
    <3>2. IsFiniteSet(T \ {x})
      BY <1>2, FS_RemoveElement
    <3> QED
      BY <3>1, <3>2, SumType
  <2> HIDE DEF Apart
  <2>12. /\ IsFiniteSet(Joined(T, f)) /\ Cardinality(Joined(T, f)) <= SumOver(T, g)
         /\ Apart => Cardinality(Joined(T, f)) = SumOver(T, g)
    BY <2>2, <2>4, <2>5, <2>6, <2>7, <2>8, <2>9, <2>10, <2>11
  <2> QED
    BY <2>12
<1> HIDE DEF G
<1>3. S \in G
  BY <1>1, <1>2, SetInduction
<1> QED
  BY <1>3 DEF G

\* A finite set of numbers has a least one.
LEMMA LeastNumber ==
    ASSUME NEW S, IsFiniteSet(S), S \subseteq Nat, S # {}
    PROVE  \E x \in S : \A y \in S : x <= y
<1> DEFINE G == {T \in SUBSET S : T = {} \/ \E x \in T : \A y \in T : x <= y}
<1>1. {} \in G
  OBVIOUS
<1>2. ASSUME NEW T \in SUBSET S, IsFiniteSet(T), T # {}, \A x \in T : T \ {x} \in G
      PROVE  T \in G
  <2>1. PICK z \in T : TRUE
    BY <1>2
  <2>2. T \ {z} = {} \/ \E x \in T \ {z} : \A y \in T \ {z} : x <= y
    BY <1>2
  <2>3. CASE T \ {z} = {}
    <3>1. \A y \in T : z <= y
      BY <2>3
    <3> QED
      BY <3>1
  <2>4. CASE \E x \in T \ {z} : \A y \in T \ {z} : x <= y
    <3>1. PICK x \in T \ {z} : \A y \in T \ {z} : x <= y
      BY <2>4
    <3>2. x \in Nat /\ z \in Nat
      OBVIOUS
    <3>3. \/ \A y \in T : x <= y
          \/ \A y \in T : z <= y
      <4>1. CASE x <= z
        BY <3>1, <3>2, <4>1
      <4>2. CASE z <= x
        <5>1. \A y \in T : y \in Nat
          OBVIOUS
        <5> QED
          BY <3>1, <3>2, <4>2, <5>1
      <4> QED
        BY <3>2, <4>1, <4>2
    <3> QED
      BY <3>3
  <2> QED
    BY <2>2, <2>3, <2>4
<1> HIDE DEF G
<1>3. S \in G
  BY <1>1, <1>2, SetInduction
<1> QED
  BY <1>3 DEF G
=============================================================================
