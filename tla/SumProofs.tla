------------------------------ MODULE SumProofs -------------------------------
(***************************************************************************)
(* Lemmas about sums over finite sets, as the services' aggregates compute *)
(* them. A sum is a recursive function on the subsets of a set that takes  *)
(* one element out at a time; the lemmas say that such a function exists,  *)
(* that the sum is the same in whatever order it takes them, and how it    *)
(* changes with one element more. Induction is by the least counterexample.*)
(***************************************************************************)
EXTENDS Integers, Functions, FiniteSetTheorems, WellFoundedInduction, TLAPS

\* A set of natural numbers that is not empty has a least element.
LEMMA LeastNumber ==
  ASSUME NEW N, N \subseteq Nat, N # {}
  PROVE  \E n \in N : \A m \in N : n <= m
<1> DEFINE Less == {s \in Nat \X Nat : s[1] < s[2]}
<1>1. IsWellFoundedOn(Less, Nat)
  BY NatLessThanWellFounded DEF OpToRel
<1>2. \A m, n \in Nat : <<m, n>> \in Less <=> m < n
  OBVIOUS
<1> HIDE DEF Less
<1>3. PICK n \in N : \A m \in N : ~(<<m, n>> \in Less)
  BY <1>1, WFMin
<1>4. ASSUME NEW m \in N PROVE n <= m
  <2>1. ~(m < n)
    BY <1>2, <1>3
  <2> QED
    BY <2>1
<1> QED
  BY <1>4

\* Of finite sets there is one than which no other is smaller.
LEMMA SmallestSet ==
  ASSUME NEW C, C # {}, \A s \in C : IsFiniteSet(s)
  PROVE  \E s \in C : \A t \in C : t \subseteq s => t = s
<1> DEFINE N == {Cardinality(s) : s \in C}
<1>1. N \subseteq Nat /\ N # {}
  BY FS_CardinalityType
<1>2. PICK s \in C : \A t \in C : Cardinality(s) <= Cardinality(t)
  <2> HIDE DEF N
  <2>1. PICK n \in N : \A m \in N : n <= m
    BY <1>1, LeastNumber
  <2> QED
    BY <2>1 DEF N
<1>3. ASSUME NEW t \in C, t \subseteq s PROVE t = s
  <2>1. Cardinality(t) = Cardinality(s)
    BY <1>2, <1>3, FS_Subset, FS_CardinalityType
  <2> QED
    BY <1>3, <2>1, FS_Subset
<1> QED
  BY <1>3
-----------------------------------------------------------------------------
Any(s) == CHOOSE x \in s : TRUE

\* f adds up the values v on the subsets of S.
Added(v, f, s) == IF s = {} THEN 0 ELSE v[Any(s)] + f[s \ {Any(s)}]
AddsUp(v, f, S) == f = [s \in SUBSET S |-> Added(v, f, s)]

LEMMA SumIsAdding == ASSUME NEW v, NEW S
                     PROVE  SumFunctionOnSet(v, S) = (CHOOSE f : AddsUp(v, f, S))[S]
BY DEF SumFunctionOnSet, FoldFunctionOnSet, MapThenFoldSet, AddsUp, Added, Any

LEMMA AnyIsOne == ASSUME NEW s, s # {} PROVE Any(s) \in s
BY DEF Any

\* Two such functions agree where both are defined.
LEMMA AddingIsUnique ==
  ASSUME NEW v, NEW f, NEW g, NEW S, NEW T, IsFiniteSet(S), AddsUp(v, f, S), AddsUp(v, g, T)
  PROVE  \A s \in SUBSET (S \cap T) : f[s] = g[s]
<1> DEFINE C == {s \in SUBSET (S \cap T) : f[s] # g[s]}
<1> SUFFICES ASSUME C # {} PROVE FALSE
  OBVIOUS
<1>1. PICK s \in C : \A t \in C : t \subseteq s => t = s
  <2>1. \A s \in C : IsFiniteSet(s)
    BY FS_Subset
  <2> HIDE DEF C
  <2> QED
    BY <2>1, SmallestSet
<1>2. f[s] = Added(v, f, s) /\ g[s] = Added(v, g, s)
  BY <1>1 DEF AddsUp
<1>3. s # {}
  BY <1>1, <1>2 DEF Added
<1>4. s \ {Any(s)} \subseteq s /\ s \ {Any(s)} # s
  BY <1>3, AnyIsOne
<1>5. f[s \ {Any(s)}] = g[s \ {Any(s)}]
  BY <1>1, <1>4
<1> QED
  BY <1>1, <1>2, <1>5 DEF Added

\* For a finite set there is one.
LEMMA AddingExists ==
  ASSUME NEW v, NEW S, IsFiniteSet(S)
  PROVE  \E f : AddsUp(v, f, S)
<1> DEFINE C == {s \in SUBSET S : ~ \E f : AddsUp(v, f, s)}
<1> SUFFICES ASSUME C # {} PROVE FALSE
  OBVIOUS
<1>1. PICK s \in C : \A t \in C : t \subseteq s => t = s
  <2>1. \A s \in C : IsFiniteSet(s)
    BY FS_Subset
  <2> HIDE DEF C
  <2> QED
    BY <2>1, SmallestSet
<1> DEFINE Of(t) == CHOOSE f : AddsUp(v, f, t)
           Rest(t) == t \ {Any(t)}
           At(t) == IF t = {} THEN 0 ELSE v[Any(t)] + Of(Rest(t))[Rest(t)]
           g == [t \in SUBSET s |-> At(t)]
<1>2. ASSUME NEW t \in SUBSET s, t # s PROVE AddsUp(v, Of(t), t)
  <2>1. t \notin C /\ t \in SUBSET S
    BY <1>1, <1>2
  <2> QED
    BY <2>1
<1>3. ASSUME NEW t \in SUBSET s, t # {} PROVE g[Rest(t)] = Of(Rest(t))[Rest(t)]
  <2> DEFINE u == Rest(t)
  <2>1. u \in SUBSET s /\ u # s
    BY <1>3, AnyIsOne
  <2>2. AddsUp(v, Of(u), u)
    BY <1>2, <2>1
  <2>3. Of(u)[u] = Added(v, Of(u), u)
    BY <2>2 DEF AddsUp
  <2>4. CASE u = {}
    BY <2>1, <2>3, <2>4 DEF Added
  <2>5. CASE u # {}
    <3>1. Rest(u) \in SUBSET s /\ Rest(u) # s /\ Rest(u) \subseteq u
      BY <2>1, <2>5
    <3>2. AddsUp(v, Of(Rest(u)), Rest(u))
      BY <1>2, <3>1
    <3>3. IsFiniteSet(u)
      BY <1>1, <2>1, FS_Subset
    <3>4. Of(u)[Rest(u)] = Of(Rest(u))[Rest(u)]
      BY <2>2, <3>1, <3>2, <3>3, AddingIsUnique
    <3> QED
      BY <2>1, <2>3, <2>5, <3>4 DEF Added
  <2> QED
    BY <2>4, <2>5
<1>4. ASSUME NEW t \in SUBSET s PROVE g[t] = Added(v, g, t)
  <2>1. g[t] = At(t)
    OBVIOUS
  <2>2. t # {} => g[Rest(t)] = Of(Rest(t))[Rest(t)]
    BY <1>3
  <2> HIDE DEF g, Of
  <2> QED
    BY <2>1, <2>2 DEF Added
<1>5. AddsUp(v, g, s)
  BY <1>4 DEF AddsUp
<1> QED
  BY <1>1, <1>5
-----------------------------------------------------------------------------
Sum(v, S) == SumFunctionOnSet(v, S)

LEMMA SumOfNone == ASSUME NEW v PROVE Sum(v, {}) = 0
<1>1. PICK f : AddsUp(v, f, {}) /\ Sum(v, {}) = f[{}]
  BY AddingExists, SumIsAdding, FS_EmptySet DEF Sum
<1> QED
  BY <1>1 DEF AddsUp, Added

\* The sum adds the element it takes out first to the sum of the rest.
LEMMA SumTakesAny ==
  ASSUME NEW v, NEW S, IsFiniteSet(S), S # {}
  PROVE  Sum(v, S) = v[Any(S)] + Sum(v, S \ {Any(S)})
<1> DEFINE T == S \ {Any(S)}
<1>1. PICK f : AddsUp(v, f, S) /\ Sum(v, S) = f[S]
  BY AddingExists, SumIsAdding DEF Sum
<1>2. IsFiniteSet(T) /\ T \subseteq S
  BY FS_Subset
<1> HIDE DEF T
<1>3. PICK g : AddsUp(v, g, T) /\ Sum(v, T) = g[T]
  BY <1>2, AddingExists, SumIsAdding DEF Sum
<1>4. f[T] = g[T]
  <2>1. T \in SUBSET (S \cap T)
    BY <1>2
  <2> QED
    BY <1>1, <1>3, <2>1, AddingIsUnique
<1>5. f[S] = Added(v, f, S)
  BY <1>1 DEF AddsUp
<1> QED
  BY <1>1, <1>3, <1>4, <1>5 DEF Added, T

\* A sum of integers is an integer.
LEMMA SumIsInt ==
  ASSUME NEW v, NEW S, IsFiniteSet(S), \A x \in S : v[x] \in Int
  PROVE  Sum(v, S) \in Int
<1> DEFINE C == {s \in SUBSET S : Sum(v, s) \notin Int}
<1> SUFFICES ASSUME C # {} PROVE FALSE
  OBVIOUS
<1>1. PICK s \in C : \A t \in C : t \subseteq s => t = s
  <2>1. \A s \in C : IsFiniteSet(s)
    BY FS_Subset
  <2> HIDE DEF C
  <2> QED
    BY <2>1, SmallestSet
<1>2. s # {} /\ IsFiniteSet(s) /\ s \subseteq S
  <2>1. Sum(v, {}) \in Int
    BY SumOfNone
  <2>2. s \subseteq S /\ Sum(v, s) \notin Int
    BY <1>1
  <2> QED
    BY <2>1, <2>2, FS_Subset
<1>3. s \ {Any(s)} \subseteq s /\ s \ {Any(s)} # s /\ Any(s) \in s
  BY <1>2, AnyIsOne
<1>4. Sum(v, s \ {Any(s)}) \in Int
  BY <1>1, <1>3
<1>5. Sum(v, s) = v[Any(s)] + Sum(v, s \ {Any(s)})
  BY <1>2, SumTakesAny
<1> QED
  BY <1>1, <1>2, <1>3, <1>4, <1>5

\* A sum of natural numbers is a natural number.
LEMMA SumIsNat ==
  ASSUME NEW v, NEW S, IsFiniteSet(S), \A x \in S : v[x] \in Nat
  PROVE  Sum(v, S) \in Nat
<1> DEFINE C == {s \in SUBSET S : Sum(v, s) \notin Nat}
<1> SUFFICES ASSUME C # {} PROVE FALSE
  OBVIOUS
<1>1. PICK s \in C : \A t \in C : t \subseteq s => t = s
  <2>1. \A s \in C : IsFiniteSet(s)
    BY FS_Subset
  <2> HIDE DEF C
  <2> QED
    BY <2>1, SmallestSet
<1>2. s # {} /\ IsFiniteSet(s) /\ s \subseteq S
  <2>1. Sum(v, {}) \in Nat
    BY SumOfNone
  <2>2. s \subseteq S /\ Sum(v, s) \notin Nat
    BY <1>1
  <2> QED
    BY <2>1, <2>2, FS_Subset
<1>3. s \ {Any(s)} \subseteq s /\ s \ {Any(s)} # s /\ Any(s) \in s
  BY <1>2, AnyIsOne
<1>4. Sum(v, s \ {Any(s)}) \in Nat
  BY <1>1, <1>3
<1>5. Sum(v, s) = v[Any(s)] + Sum(v, s \ {Any(s)})
  BY <1>2, SumTakesAny
<1> QED
  BY <1>1, <1>2, <1>3, <1>4, <1>5

\* Whichever element is taken out first, the sum is the same.
LEMMA SumTakesEach ==
  ASSUME NEW v, NEW S, IsFiniteSet(S), \A x \in S : v[x] \in Int
  PROVE  \A x \in S : Sum(v, S) = v[x] + Sum(v, S \ {x})
<1> DEFINE C == {s \in SUBSET S : \E x \in s : Sum(v, s) # v[x] + Sum(v, s \ {x})}
<1> SUFFICES ASSUME C # {} PROVE FALSE
  OBVIOUS
<1>1. PICK s \in C : \A t \in C : t \subseteq s => t = s
  <2>1. \A s \in C : IsFiniteSet(s)
    BY FS_Subset
  <2> HIDE DEF C
  <2> QED
    BY <2>1, SmallestSet
<1>2. PICK x \in s : Sum(v, s) # v[x] + Sum(v, s \ {x})
  BY <1>1
<1>3. PICK y \in s : y = Any(s)
  BY <1>2, AnyIsOne
<1>4. IsFiniteSet(s) /\ s \subseteq S
  BY <1>1, FS_Subset
<1>5. Sum(v, s) = v[y] + Sum(v, s \ {y})
  BY <1>2, <1>3, <1>4, SumTakesAny
<1>6. x # y
  BY <1>2, <1>5
<1>7. Sum(v, s \ {y}) = v[x] + Sum(v, (s \ {y}) \ {x})
  <2>1. s \ {y} \notin C /\ s \ {y} \in SUBSET S /\ x \in s \ {y}
    BY <1>1, <1>4, <1>6
  <2> QED
    BY <2>1
<1>8. Sum(v, s \ {x}) = v[y] + Sum(v, (s \ {x}) \ {y})
  <2>1. s \ {x} \notin C /\ s \ {x} \in SUBSET S /\ y \in s \ {x}
    BY <1>1, <1>4, <1>6
  <2> QED
    BY <2>1
<1>9. (s \ {y}) \ {x} = (s \ {x}) \ {y}
  OBVIOUS
<1>10. PICK rest \in Int : rest = Sum(v, (s \ {x}) \ {y})
  <2>1. IsFiniteSet((s \ {x}) \ {y}) /\ (s \ {x}) \ {y} \subseteq S
    BY <1>4, FS_Subset
  <2> QED
    BY <2>1, SumIsInt
<1>11. v[x] \in Int /\ v[y] \in Int
  BY <1>4
<1>12. Sum(v, s) = v[y] + (v[x] + rest) /\ Sum(v, s \ {x}) = v[y] + rest
  BY <1>5, <1>7, <1>8, <1>9, <1>10
<1>13. v[y] + (v[x] + rest) = v[x] + (v[y] + rest)
  BY <1>11
<1> QED
  BY <1>2, <1>12, <1>13

\* One element more.
LEMMA SumAdds ==
  ASSUME NEW v, NEW S, IsFiniteSet(S), NEW x, x \notin S, \A y \in S \cup {x} : v[y] \in Int
  PROVE  Sum(v, S \cup {x}) = v[x] + Sum(v, S)
<1>1. IsFiniteSet(S \cup {x})
  BY FS_AddElement
<1>2. (S \cup {x}) \ {x} = S
  OBVIOUS
<1> QED
  BY <1>1, <1>2, SumTakesEach

\* Only the values of the elements count.
LEMMA SumOfSame ==
  ASSUME NEW v, NEW w, NEW S, IsFiniteSet(S), \A x \in S : v[x] = w[x]
  PROVE  Sum(v, S) = Sum(w, S)
<1> DEFINE C == {s \in SUBSET S : Sum(v, s) # Sum(w, s)}
<1> SUFFICES ASSUME C # {} PROVE FALSE
  OBVIOUS
<1>1. PICK s \in C : \A t \in C : t \subseteq s => t = s
  <2>1. \A s \in C : IsFiniteSet(s)
    BY FS_Subset
  <2> HIDE DEF C
  <2> QED
    BY <2>1, SmallestSet
<1>2. s # {} /\ IsFiniteSet(s) /\ s \subseteq S
  BY <1>1, SumOfNone, FS_Subset
<1>3. s \ {Any(s)} \subseteq s /\ s \ {Any(s)} # s /\ Any(s) \in s
  BY <1>2, AnyIsOne
<1>4. Sum(v, s \ {Any(s)}) = Sum(w, s \ {Any(s)})
  BY <1>1, <1>3
<1>5. Sum(v, s) = v[Any(s)] + Sum(v, s \ {Any(s)}) /\ Sum(w, s) = w[Any(s)] + Sum(w, s \ {Any(s)})
  BY <1>2, SumTakesAny
<1> QED
  BY <1>1, <1>2, <1>3, <1>4, <1>5

\* A sum of noughts is nought.
LEMMA SumOfNoughts ==
  ASSUME NEW v, NEW S, IsFiniteSet(S), \A x \in S : v[x] = 0
  PROVE  Sum(v, S) = 0
<1> DEFINE C == {s \in SUBSET S : Sum(v, s) # 0}
<1> SUFFICES ASSUME C # {} PROVE FALSE
  OBVIOUS
<1>1. PICK s \in C : \A t \in C : t \subseteq s => t = s
  <2>1. \A s \in C : IsFiniteSet(s)
    BY FS_Subset
  <2> HIDE DEF C
  <2> QED
    BY <2>1, SmallestSet
<1>2. s # {} /\ IsFiniteSet(s) /\ s \subseteq S
  BY <1>1, SumOfNone, FS_Subset
<1>3. s \ {Any(s)} \subseteq s /\ s \ {Any(s)} # s /\ Any(s) \in s
  BY <1>2, AnyIsOne
<1>4. Sum(v, s \ {Any(s)}) = 0
  BY <1>1, <1>3
<1>5. Sum(v, s) = v[Any(s)] + Sum(v, s \ {Any(s)})
  BY <1>2, SumTakesAny
<1> QED
  BY <1>1, <1>2, <1>3, <1>4, <1>5

\* A sum of less is no more.
LEMMA SumOfLess ==
  ASSUME NEW v, NEW w, NEW S, IsFiniteSet(S),
         \A x \in S : v[x] \in Int /\ w[x] \in Int /\ v[x] <= w[x]
  PROVE  Sum(v, S) <= Sum(w, S)
<1> DEFINE C == {s \in SUBSET S : ~(Sum(v, s) <= Sum(w, s))}
<1> SUFFICES ASSUME C # {} PROVE FALSE
  OBVIOUS
<1>1. PICK s \in C : \A t \in C : t \subseteq s => t = s
  <2>1. \A s \in C : IsFiniteSet(s)
    BY FS_Subset
  <2> HIDE DEF C
  <2> QED
    BY <2>1, SmallestSet
<1>2. s # {} /\ IsFiniteSet(s) /\ s \subseteq S
  <2>1. Sum(v, {}) <= Sum(w, {})
    BY SumOfNone
  <2> QED
    BY <1>1, <2>1, FS_Subset
<1>3. s \ {Any(s)} \subseteq s /\ s \ {Any(s)} # s /\ Any(s) \in s
  BY <1>2, AnyIsOne
<1>4. IsFiniteSet(s \ {Any(s)})
  BY <1>2, <1>3, FS_Subset
<1>5. Sum(v, s \ {Any(s)}) <= Sum(w, s \ {Any(s)})
  BY <1>1, <1>3
<1>6. Sum(v, s \ {Any(s)}) \in Int /\ Sum(w, s \ {Any(s)}) \in Int
  BY <1>2, <1>3, <1>4, SumIsInt
<1>7. Sum(v, s) = v[Any(s)] + Sum(v, s \ {Any(s)}) /\ Sum(w, s) = w[Any(s)] + Sum(w, s \ {Any(s)})
  BY <1>2, SumTakesAny
<1>8. v[Any(s)] \in Int /\ w[Any(s)] \in Int /\ v[Any(s)] <= w[Any(s)]
  BY <1>2, <1>3
<1> QED
  BY <1>1, <1>5, <1>6, <1>7, <1>8

\* A sum over two sets that have nothing in common.
LEMMA SumOfUnion ==
  ASSUME NEW v, NEW S, NEW T, IsFiniteSet(S), IsFiniteSet(T), S \cap T = {},
         \A x \in S \cup T : v[x] \in Int
  PROVE  Sum(v, S \cup T) = Sum(v, S) + Sum(v, T)
<1> DEFINE C == {t \in SUBSET T : Sum(v, S \cup t) # Sum(v, S) + Sum(v, t)}
<1> SUFFICES ASSUME C # {} PROVE FALSE
  OBVIOUS
<1>1. PICK t \in C : \A u \in C : u \subseteq t => u = t
  <2>1. \A u \in C : IsFiniteSet(u)
    BY FS_Subset
  <2> HIDE DEF C
  <2> QED
    BY <2>1, SmallestSet
<1>2. IsFiniteSet(t) /\ t \subseteq T /\ Sum(v, S \cup t) # Sum(v, S) + Sum(v, t)
  BY <1>1, FS_Subset
<1>3. Sum(v, S) \in Int
  BY SumIsInt
<1>4. PICK x : x \in t
  <2>1. t # {}
    <3>1. S \cup {} = S
      OBVIOUS
    <3> QED
      BY <1>2, <1>3, <3>1, SumOfNone
  <2> QED
    BY <2>1
<1> DEFINE rest == t \ {x}
<1>5. rest \notin C /\ rest \in SUBSET T
  BY <1>1, <1>2, <1>4
<1>6. Sum(v, S \cup rest) = Sum(v, S) + Sum(v, rest)
  BY <1>5
<1>7. IsFiniteSet(rest) /\ IsFiniteSet(S \cup rest)
  BY <1>2, FS_Subset, FS_Union
<1>8. t = rest \cup {x} /\ S \cup t = (S \cup rest) \cup {x} /\ x \notin rest /\ x \notin S \cup rest
  BY <1>2, <1>4
<1>9. v[x] \in Int /\ Sum(v, rest) \in Int /\ \A y \in (S \cup rest) \cup {x} : v[y] \in Int
  BY <1>2, <1>4, <1>7, SumIsInt
<1> HIDE DEF rest
<1>10. Sum(v, t) = v[x] + Sum(v, rest) /\ Sum(v, S \cup t) = v[x] + Sum(v, S \cup rest)
  BY <1>7, <1>8, <1>9, SumAdds
<1> QED
  BY <1>2, <1>3, <1>6, <1>9, <1>10

\* The images of the elements of a finite set are finitely many.
LEMMA ImageIsFinite ==
  ASSUME NEW S, NEW f, IsFiniteSet(S)
  PROVE  IsFiniteSet({f[x] : x \in S})
<1> DEFINE T == {f[x] : x \in S}
           g == [x \in S |-> f[x]]
<1>1. g \in [S -> T] /\ \A t \in T : \E x \in S : g[x] = t
  OBVIOUS
<1> HIDE DEF T, g
<1>2. g \in Surjection(S, T)
  BY <1>1 DEF Surjection
<1>3. IsFiniteSet(T)
  BY <1>2, FS_Surjection
<1> QED
  BY <1>3 DEF T

\* A sum over the images of the elements, one for each, with the same values or
\* with their opposites.
LEMMA SumOfImages ==
  ASSUME NEW v, NEW w, NEW S, NEW f, NEW c \in {-1, 1}, IsFiniteSet(S),
         \A x \in S : v[x] \in Int /\ w[f[x]] = c * v[x],
         \A x, y \in S : f[x] = f[y] => x = y
  PROVE  Sum(w, {f[x] : x \in S}) = c * Sum(v, S)
<1> DEFINE Of(s) == {f[x] : x \in s}
           C == {s \in SUBSET S : Sum(w, Of(s)) # c * Sum(v, s)}
<1> SUFFICES ASSUME C # {} PROVE FALSE
  OBVIOUS
<1>1. PICK s \in C : \A u \in C : u \subseteq s => u = s
  <2>1. \A u \in C : IsFiniteSet(u)
    BY FS_Subset
  <2> HIDE DEF C
  <2> QED
    BY <2>1, SmallestSet
<1>2. IsFiniteSet(s) /\ s \subseteq S /\ Sum(w, Of(s)) # c * Sum(v, s)
  BY <1>1, FS_Subset
<1>3. PICK x : x \in s
  <2>1. s # {}
    <3>1. Of({}) = {}
      OBVIOUS
    <3> HIDE DEF Of
    <3> QED
      BY <1>2, <3>1, SumOfNone
  <2> QED
    BY <2>1
<1> DEFINE rest == s \ {x}
<1>4. rest \notin C /\ rest \in SUBSET S
  BY <1>1, <1>2, <1>3
<1>5. Sum(w, Of(rest)) = c * Sum(v, rest)
  BY <1>4
<1>6. IsFiniteSet(rest) /\ IsFiniteSet(Of(rest))
  <2>1. IsFiniteSet(rest)
    BY <1>2, FS_Subset
  <2>2. Of(rest) = {f[y] : y \in rest}
    OBVIOUS
  <2> HIDE DEF rest, Of
  <2>3. IsFiniteSet({f[y] : y \in rest})
    BY <2>1, ImageIsFinite
  <2> QED
    BY <2>1, <2>2, <2>3
<1>7. /\ s = rest \cup {x} /\ x \notin rest
      /\ Of(s) = Of(rest) \cup {f[x]} /\ f[x] \notin Of(rest)
  BY <1>2, <1>3
<1>8. v[x] \in Int /\ w[f[x]] = c * v[x] /\ (\A y \in rest \cup {x} : v[y] \in Int)
  BY <1>2, <1>3
<1>9. \A y \in Of(rest) \cup {f[x]} : w[y] \in Int
  BY <1>2, <1>3
<1>10. Sum(v, rest) \in Int
  BY <1>6, <1>8, SumIsInt
<1> HIDE DEF rest, Of
<1>11. Sum(v, s) = v[x] + Sum(v, rest) /\ Sum(w, Of(s)) = w[f[x]] + Sum(w, Of(rest))
  BY <1>6, <1>7, <1>8, <1>9, SumAdds
<1>12. CASE c = 1
  BY <1>2, <1>5, <1>8, <1>10, <1>11, <1>12
<1>13. CASE c = -1
  BY <1>2, <1>5, <1>8, <1>10, <1>11, <1>13
<1> QED
  BY <1>12, <1>13

\* T falls into a group for every element of D, and g is the sums of the groups.
Grouped(v, T, key, D, group, g) ==
    /\ IsFiniteSet(T) /\ IsFiniteSet(D)
    /\ \A x \in T : v[x] \in Int /\ key[x] \in D
    /\ \A d \in D : /\ group[d] \subseteq T /\ \A x \in T : x \in group[d] <=> key[x] = d
                    /\ g[d] = Sum(v, group[d])

\* The sum of the sums of the groups.
LEMMA SumOfGroups ==
  ASSUME NEW v, NEW T, NEW key, NEW D, NEW group, NEW g, Grouped(v, T, key, D, group, g)
  PROVE  Sum(v, T) = Sum(g, D)
<1> USE DEF Grouped
<1> DEFINE In(E) == {x \in T : key[x] \in E}
           C == {E \in SUBSET D : Sum(v, In(E)) # Sum(g, E)}
<1>0. T = In(D)
  OBVIOUS
<1> SUFFICES ASSUME C # {} PROVE FALSE
  BY <1>0
<1>1. PICK E \in C : \A u \in C : u \subseteq E => u = E
  <2>1. \A u \in C : IsFiniteSet(u)
    BY FS_Subset
  <2> HIDE DEF C
  <2> QED
    BY <2>1, SmallestSet
<1>2. IsFiniteSet(E) /\ E \subseteq D /\ Sum(v, In(E)) # Sum(g, E)
  BY <1>1, FS_Subset
<1>3. PICK d : d \in E
  <2>1. E # {}
    <3>1. In({}) = {}
      OBVIOUS
    <3> HIDE DEF In
    <3> QED
      BY <1>2, <3>1, SumOfNone
  <2> QED
    BY <2>1
<1> DEFINE rest == E \ {d}
           Group == {x \in T : key[x] = d}
<1>4. rest \notin C /\ rest \in SUBSET D
  BY <1>1, <1>2, <1>3
<1>5. Sum(v, In(rest)) = Sum(g, rest)
  BY <1>4
<1>6. IsFiniteSet(rest) /\ IsFiniteSet(In(rest)) /\ IsFiniteSet(Group)
  BY <1>2, FS_Subset
<1>7. /\ E = rest \cup {d} /\ d \notin rest /\ d \in D
      /\ In(E) = In(rest) \cup Group /\ In(rest) \cap Group = {}
      /\ In(rest) \subseteq T /\ Group \subseteq T /\ rest \subseteq D
  BY <1>2, <1>3
<1>8. g[d] = Sum(v, Group)
  <2>1. group[d] = Group
    BY <1>7
  <2> QED
    BY <1>7, <2>1
<1>9. \A e \in D : g[e] \in Int
  <2>1. ASSUME NEW e \in D PROVE g[e] \in Int
    <3>1. IsFiniteSet(group[e]) /\ \A x \in group[e] : v[x] \in Int
      BY FS_Subset
    <3> QED
      BY <3>1, SumIsInt
  <2> QED
    BY <2>1
<1> HIDE DEF rest, In, Group
<1>10. Sum(g, E) = g[d] + Sum(g, rest)
  <2>1. \A e \in rest \cup {d} : g[e] \in Int
    BY <1>7, <1>9
  <2> QED
    BY <1>6, <1>7, <2>1, SumAdds
<1>11. Sum(v, In(E)) = Sum(v, In(rest)) + Sum(v, Group)
  <2>1. PICK A, B : A = In(rest) /\ B = Group
    OBVIOUS
  <2>2. IsFiniteSet(A) /\ IsFiniteSet(B) /\ A \cap B = {} /\ In(E) = A \cup B
    BY <1>6, <1>7, <2>1
  <2>3. \A x \in A \cup B : v[x] \in Int
    BY <1>7, <2>1
  <2>4. Sum(v, A \cup B) = Sum(v, A) + Sum(v, B)
    BY <2>2, <2>3, SumOfUnion
  <2> QED
    BY <2>1, <2>2, <2>4
<1>12. Sum(v, Group) \in Int /\ Sum(v, In(rest)) \in Int
  BY <1>6, <1>7, SumIsInt
<1> QED
  BY <1>2, <1>5, <1>8, <1>10, <1>11, <1>12
=============================================================================
